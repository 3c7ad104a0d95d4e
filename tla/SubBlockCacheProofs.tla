------------------------ MODULE SubBlockCacheProofs ------------------------
(***************************************************************************)
(* The statistics of SubBlockCache are those of its contents, Prune evicts *)
(* the least recently used and no more than the limits ask for.            *)
(***************************************************************************)
EXTENDS SubBlockCache, FiniteSetTheorems, TLAPS

(* The inductive invariant. *)

Adding == {"add", "inserted", "overwriting"}
Holding == {"inserted", "overwriting", "pruning", "evicting"}

LockInv == \A t \in Threads : mutex = t <=> pc[t] \in Holding

AddInv ==
  \A t \in Threads :
    /\ pc[t] \in Adding => adding[t] \in Additions
    /\ pc[t] = "inserted" => /\ adding[t].index \in DOMAIN cache
                             /\ cache[adding[t].index] = adding[t].entry
    /\ pc[t] = "overwriting" => adding[t].index \in DOMAIN cache

\* How far the statistics are from the contents, by what the holder of the
\* mutex has done.
SizeInv ==
  /\ (\A t \in Threads : pc[t] \notin {"overwriting", "evicting"}) =>
       cacheSizeInBytes = MemoryUsage(cache)
  /\ \A t \in Threads :
       /\ pc[t] = "overwriting" =>
            cacheSizeInBytes =
              MemoryUsage(cache) - BitmapSize[cache[adding[t].index].bitmap]
       /\ pc[t] = "evicting" =>
            \A i \in Indices : Oldest(i) =>
              cacheSizeInBytes =
                MemoryUsage(cache) - BitmapSize[cache[i].bitmap]

CountInv ==
  /\ (\A t \in Threads : pc[t] # "inserted") =>
       cacheSubBlockCount = ElementsCount(cache)
  /\ \A t \in Threads :
       pc[t] = "inserted" => cacheSubBlockCount = ElementsCount(cache) - 1

\* No two accesses have the same LRU value.
LruInv ==
  /\ \A i \in DOMAIN cache : cache[i].lruValue < lruCounter
  /\ \A i, k \in DOMAIN cache : cache[i].lruValue = cache[k].lruValue => i = k
  /\ \A t \in Threads : pc[t] \in Adding =>
       /\ adding[t].entry.lruValue < lruCounter
       /\ pc[t] # "inserted" =>
            \A i \in DOMAIN cache : cache[i].lruValue # adding[t].entry.lruValue
       /\ \A u \in Threads : pc[u] \in Adding /\ u # t =>
            adding[u].entry.lruValue # adding[t].entry.lruValue

\* An Add that has inserted k and not returned is not yet an access that has
\* ended.
Settled(k) ==
  \A t \in Threads : pc[t] = "inserted" => adding[t].index # k

\* LRU values are in the order of accesses that did not overlap.
RecencyInv ==
  /\ \A i, k \in DOMAIN cache :
       <<i, k>> \in lastLaterThan /\ Settled(i) /\ Settled(k) =>
         cache[k].lruValue < cache[i].lruValue
  /\ \A t \in Threads : pc[t] \in Adding =>
       \A k \in since[t] \cap DOMAIN cache :
         Settled(k) => cache[k].lruValue < adding[t].entry.lruValue

LimitInv ==
  \A t \in Threads : pc[t] = "evicting" =>
    \/ MemoryUsage(cache) > pruning[t].maxMemoryUsage
    \/ ElementsCount(cache) > pruning[t].maxSubBlockCount

Inv == LockInv /\ AddInv /\ SizeInv /\ CountInv /\ LruInv /\ RecencyInv
       /\ LimitInv

-----------------------------------------------------------------------------
(* What the contents of a cache weigh. *)

IsCache(c) == DOMAIN c \subseteq Indices /\ c \in [DOMAIN c -> Entries]

LEMMA Difference ==
  ASSUME NEW whole, NEW part \in Nat, NEW rest \in Nat
  PROVE  /\ rest + part \in Nat
         /\ whole = rest + part =>
              whole - part = rest /\ whole - part \in Nat
OBVIOUS

LEMMA BytesOfSize ==
  ASSUME NEW i, NEW e \in Entries
  PROVE  /\ IsFiniteSet(BytesOf(i, e))
         /\ Cardinality(BytesOf(i, e)) = BitmapSize[e.bitmap]
         /\ BitmapSize[e.bitmap] \in Nat
<1> DEFINE n == BitmapSize[e.bitmap]
<1>1. n \in Nat
  <2>1. e.bitmap \in Bitmaps
    BY DEF Entries
  <2> QED BY <2>1, CacheAssumption, Zenon
<1> HIDE DEF n
<1>2. IsFiniteSet(1 .. n) /\ Cardinality(1 .. n) = n
  BY <1>1, FS_Interval
<1>3. IsFiniteSet({i}) /\ Cardinality({i}) = 1
  BY FS_Singleton
<1>4. IsFiniteSet({i} \X (1 .. n)) /\ Cardinality({i} \X (1 .. n)) = 1 * n
  <2> DEFINE S == {i}
             T == 1 .. n
  <2>1. IsFiniteSet(S) /\ IsFiniteSet(T)
    BY <1>2, <1>3
  <2> HIDE DEF S, T
  <2>2. IsFiniteSet(S \X T) /\ Cardinality(S \X T) = Cardinality(S) * Cardinality(T)
    BY <2>1, FS_Product
  <2>3. Cardinality(S) = 1 /\ Cardinality(T) = n
    BY <1>2, <1>3 DEF S, T
  <2>4. IsFiniteSet(S \X T) /\ Cardinality(S \X T) = 1 * n
    BY <2>2, <2>3, Zenon
  <2> QED BY <2>4 DEF S, T
<1>5. Cardinality({i} \X (1 .. n)) = n
  <2>1. 1 * n = n
    BY <1>1
  <2> QED BY <1>4, <2>1, Zenon
<1>6. BytesOf(i, e) = {i} \X (1 .. n) /\ n = BitmapSize[e.bitmap]
  BY DEF BytesOf, n
<1> QED BY <1>1, <1>4, <1>5, <1>6, Zenon

LEMMA ContentsFinite ==
  ASSUME NEW c, IsCache(c)
  PROVE  /\ IsFiniteSet(DOMAIN c) /\ IsFiniteSet(Contents(c))
         /\ MemoryUsage(c) \in Nat /\ ElementsCount(c) \in Nat
<1> DEFINE T == {BytesOf(i, c[i]) : i \in DOMAIN c}
           f == [i \in DOMAIN c |-> BytesOf(i, c[i])]
<1>1. IsFiniteSet(DOMAIN c)
  BY CacheAssumption, FS_Subset DEF IsCache
<1>2. f \in Surjection(DOMAIN c, T)
  BY DEF Surjection
<1>3. IsFiniteSet(T)
  <2> HIDE DEF f, T
  <2> QED BY <1>1, <1>2, FS_Surjection
<1>4. \A B \in T : IsFiniteSet(B)
  BY BytesOfSize DEF IsCache
<1>5. IsFiniteSet(UNION T)
  <2> HIDE DEF T
  <2> QED BY <1>3, <1>4, FS_UNION
<1> QED BY <1>1, <1>5, FS_CardinalityType
        DEF Contents, MemoryUsage, ElementsCount

\* One element more, and as many bytes more as it has.
LEMMA OneMore ==
  ASSUME NEW c, IsCache(c), NEW d, IsCache(d), NEW i, i \notin DOMAIN c,
         DOMAIN d = DOMAIN c \cup {i},
         \A k \in DOMAIN c : BytesOf(k, d[k]) = BytesOf(k, c[k])
  PROVE  /\ MemoryUsage(d) = MemoryUsage(c) + BitmapSize[d[i].bitmap]
         /\ ElementsCount(d) = ElementsCount(c) + 1
         /\ BitmapSize[d[i].bitmap] \in Nat
<1> DEFINE B == BytesOf(i, d[i])
<1>1. d[i] \in Entries
  BY DEF IsCache
<1>2. IsFiniteSet(B) /\ Cardinality(B) = BitmapSize[d[i].bitmap]
      /\ BitmapSize[d[i].bitmap] \in Nat
  BY <1>1, BytesOfSize
<1>3. Contents(d) = Contents(c) \cup B
  BY DEF Contents
<1>4. Contents(c) \cap B = {}
  BY DEF Contents, BytesOf
<1>5. IsFiniteSet(DOMAIN c) /\ IsFiniteSet(Contents(c))
      /\ MemoryUsage(c) \in Nat
  BY ContentsFinite
<1>6. Cardinality(Contents(d)) = Cardinality(Contents(c)) + Cardinality(B)
  <2>1. Cardinality(Contents(c) \cup B)
          = Cardinality(Contents(c)) + Cardinality(B)
              - Cardinality(Contents(c) \cap B)
    <3> HIDE DEF B
    <3> QED BY <1>2, <1>5, FS_Union
  <2>2. Cardinality(Contents(c) \cap B) = 0
    BY <1>4, FS_EmptySet
  <2> HIDE DEF B
  <2> QED BY <2>1, <2>2, <1>2, <1>3, <1>5 DEF MemoryUsage
<1>7. ElementsCount(d) = ElementsCount(c) + 1
  BY <1>5, FS_AddElement DEF ElementsCount
<1> HIDE DEF B
<1> QED BY <1>2, <1>6, <1>7 DEF MemoryUsage

LEMMA NothingCached ==
  ASSUME NEW c, IsCache(c), DOMAIN c = {}
  PROVE  MemoryUsage(c) = 0 /\ ElementsCount(c) = 0
<1>1. Contents(c) = {}
  BY DEF Contents
<1> QED BY <1>1, FS_EmptySet DEF MemoryUsage, ElementsCount

\* An element is inserted, or one is evicted.
LEMMA Inserting ==
  ASSUME IsCache(cache), NEW i \in Indices, NEW e \in Entries
  PROVE  /\ IsCache(With(i, e)) /\ IsCache(Without(i))
         /\ i \notin DOMAIN cache =>
              /\ MemoryUsage(With(i, e))
                   = MemoryUsage(cache) + BitmapSize[e.bitmap]
              /\ ElementsCount(With(i, e)) = ElementsCount(cache) + 1
         /\ i \in DOMAIN cache =>
              /\ MemoryUsage(cache)
                   = MemoryUsage(Without(i)) + BitmapSize[cache[i].bitmap]
              /\ MemoryUsage(With(i, e))
                   = MemoryUsage(Without(i)) + BitmapSize[e.bitmap]
              /\ ElementsCount(cache) = ElementsCount(Without(i)) + 1
              /\ ElementsCount(With(i, e)) = ElementsCount(cache)
         /\ BitmapSize[e.bitmap] \in Nat
<1>1. IsCache(With(i, e)) /\ With(i, e)[i] = e
      /\ DOMAIN With(i, e) = DOMAIN cache \cup {i}
      /\ \A k \in DOMAIN cache \ {i} : With(i, e)[k] = cache[k]
  BY DEF IsCache, With
<1>2. IsCache(Without(i)) /\ DOMAIN Without(i) = DOMAIN cache \ {i}
      /\ \A k \in DOMAIN cache \ {i} : Without(i)[k] = cache[k]
  BY DEF IsCache, Without
<1>3. ASSUME i \notin DOMAIN cache
      PROVE  /\ MemoryUsage(With(i, e))
                  = MemoryUsage(cache) + BitmapSize[e.bitmap]
             /\ ElementsCount(With(i, e)) = ElementsCount(cache) + 1
  BY <1>1, <1>3, OneMore
<1>4. ASSUME i \in DOMAIN cache
      PROVE  /\ MemoryUsage(cache)
                  = MemoryUsage(Without(i)) + BitmapSize[cache[i].bitmap]
             /\ ElementsCount(cache) = ElementsCount(Without(i)) + 1
  <2>1. DOMAIN cache = DOMAIN Without(i) \cup {i} /\ i \notin DOMAIN Without(i)
    BY <1>2, <1>4
  <2>2. \A k \in DOMAIN Without(i) :
          BytesOf(k, cache[k]) = BytesOf(k, Without(i)[k])
    BY <1>2
  <2>3. IsCache(Without(i))
    BY <1>2
  <2> DEFINE w == Without(i)
  <2> HIDE DEF w
  <2>4. /\ MemoryUsage(cache) = MemoryUsage(w) + BitmapSize[cache[i].bitmap]
        /\ ElementsCount(cache) = ElementsCount(w) + 1
    BY <2>1, <2>2, <2>3, OneMore DEF w
  <2> QED BY <2>4 DEF w
<1>5. ASSUME i \in DOMAIN cache
      PROVE  /\ MemoryUsage(With(i, e))
                  = MemoryUsage(Without(i)) + BitmapSize[e.bitmap]
             /\ ElementsCount(With(i, e)) = ElementsCount(Without(i)) + 1
  <2>1. DOMAIN With(i, e) = DOMAIN Without(i) \cup {i}
        /\ i \notin DOMAIN Without(i)
    BY <1>1, <1>2, <1>5
  <2> QED BY <2>1, <1>1, <1>2, OneMore
<1> QED BY <1>1, <1>2, <1>3, <1>4, <1>5, BytesOfSize

\* Get changes an LRU value, which weighs nothing.
LEMMA Touching ==
  ASSUME TypeOK, NEW i \in Indices, Get(i)
  PROVE  /\ IsCache(cache') /\ DOMAIN cache' = DOMAIN cache
         /\ \A k \in DOMAIN cache : cache'[k].bitmap = cache[k].bitmap
         /\ \A k \in DOMAIN cache \ {i} : cache'[k] = cache[k]
         /\ cache'[i].lruValue = lruCounter
         /\ MemoryUsage(cache') = MemoryUsage(cache)
         /\ ElementsCount(cache') = ElementsCount(cache)
<1>1. i \in DOMAIN cache /\ cache[i] \in Entries /\ lruCounter \in Nat
      /\ cache' = [cache EXCEPT ![i].lruValue = lruCounter]
  BY CacheAssumption DEF Get, TypeOK
<1>2. /\ DOMAIN cache' = DOMAIN cache
      /\ \A k \in DOMAIN cache \ {i} : cache'[k] = cache[k]
      /\ cache'[i] = [cache[i] EXCEPT !.lruValue = lruCounter]
  BY <1>1
<1>3. /\ cache'[i] \in Entries
      /\ cache'[i].bitmap = cache[i].bitmap
      /\ cache'[i].lruValue = lruCounter
  BY <1>1, <1>2 DEF Entries
<1>4. IsCache(cache')
  BY <1>1, <1>2, <1>3 DEF IsCache, TypeOK
<1>5. Contents(cache') = Contents(cache)
  <2>1. \A k \in DOMAIN cache : BytesOf(k, cache'[k]) = BytesOf(k, cache[k])
    BY <1>2, <1>3 DEF BytesOf
  <2> QED BY <1>2, <2>1 DEF Contents
<1> QED BY <1>2, <1>3, <1>4, <1>5 DEF MemoryUsage, ElementsCount

-----------------------------------------------------------------------------
(* Every step preserves the invariant. *)

PCs == {"idle", "add", "inserted", "overwriting", "pruning", "evicting"}

LEMMA Init0 == Init => TypeOK /\ Inv
<1> SUFFICES ASSUME Init PROVE TypeOK /\ Inv
  OBVIOUS
<1>1. IsCache(cache) /\ DOMAIN cache = {}
  BY DEF Init, IsCache
<1>2. MemoryUsage(cache) = 0 /\ ElementsCount(cache) = 0
  BY <1>1, NothingCached
<1>3. TypeOK
  BY <1>1, CacheAssumption DEF Init, TypeOK, IsCache
<1>4. LockInv /\ AddInv
  BY CacheAssumption DEF Init, LockInv, AddInv, Adding, Holding
<1>5. SizeInv /\ CountInv
  BY <1>2 DEF Init, SizeInv, CountInv
<1>6. LruInv /\ RecencyInv /\ LimitInv
  BY <1>1 DEF Init, LruInv, RecencyInv, LimitInv, Adding
<1> QED BY <1>3, <1>4, <1>5, <1>6 DEF Inv

LEMMA GetKeeps ==
  ASSUME TypeOK, Inv, NEW i \in Indices, Get(i)
  PROVE  (TypeOK /\ Inv)'
<1>1. /\ IsCache(cache') /\ DOMAIN cache' = DOMAIN cache
      /\ \A k \in DOMAIN cache : cache'[k].bitmap = cache[k].bitmap
      /\ \A k \in DOMAIN cache \ {i} : cache'[k] = cache[k]
      /\ cache'[i].lruValue = lruCounter
      /\ MemoryUsage(cache') = MemoryUsage(cache)
      /\ ElementsCount(cache') = ElementsCount(cache)
  BY Touching
<1>2. \A t \in Threads : pc[t] \notin Holding
  BY CacheAssumption DEF Get, Inv, LockInv
<1>3. TypeOK'
  BY <1>1, CacheAssumption DEF TypeOK, Get, Accessed, IsCache, statistics
<1>4. LockInv' /\ AddInv'
  BY <1>1, <1>2 DEF Inv, LockInv, AddInv, Get, Holding
<1>5. SizeInv' /\ CountInv' /\ LimitInv'
  BY <1>1, <1>2 DEF Inv, SizeInv, CountInv, LimitInv, Get, Holding, statistics
<1>6. LruInv'
  <2>1. \A k \in DOMAIN cache : cache[k].lruValue \in Nat
    BY DEF TypeOK, Entries
  <2>2. lruCounter \in Nat /\ lruCounter' = lruCounter + 1
        /\ UNCHANGED <<pc, adding>>
    BY CacheAssumption DEF TypeOK, Get
  <2>3. \A t \in Threads : pc[t] \in Adding =>
          adding[t].entry.lruValue \in Nat
    BY DEF Inv, AddInv, Additions, Entries
  <2> QED BY <1>1, <2>1, <2>2, <2>3 DEF Inv, LruInv
<1>7. RecencyInv'
  <2>1. \A k \in DOMAIN cache : cache[k].lruValue < lruCounter
    BY DEF Inv, LruInv
  <2>2. \A k \in Indices : Settled(k)' <=> Settled(k)
    BY DEF Settled, Get
  <2>3. /\ lastLaterThan' = {p \in lastLaterThan : i \notin {p[1], p[2]}}
                              \cup ({i} \X (Indices \ {i}))
        /\ since' = [t \in Threads |-> since[t] \ {i}]
        /\ UNCHANGED <<pc, adding>>
    BY DEF Get, Accessed
  <2>4. ASSUME NEW j \in DOMAIN cache', NEW k \in DOMAIN cache',
               <<j, k>> \in lastLaterThan', Settled(j)', Settled(k)'
        PROVE  cache'[k].lruValue < cache'[j].lruValue
    <3>1. CASE j = i
      BY <1>1, <2>1, <2>3, <2>4, <3>1
    <3>2. CASE j # i
      <4>1. k # i /\ <<j, k>> \in lastLaterThan
        BY <2>3, <2>4, <3>2
      <4> QED BY <1>1, <2>2, <2>4, <3>2, <4>1 DEF Inv, RecencyInv, TypeOK
    <3> QED BY <3>1, <3>2
  <2>5. ASSUME NEW t \in Threads, pc'[t] \in Adding,
               NEW k \in since'[t] \cap DOMAIN cache', Settled(k)'
        PROVE  cache'[k].lruValue < adding'[t].entry.lruValue
    BY <1>1, <2>2, <2>3, <2>5 DEF Inv, RecencyInv, TypeOK
  <2> QED BY <2>4, <2>5 DEF RecencyInv
<1> QED BY <1>3, <1>4, <1>5, <1>6, <1>7 DEF Inv

LEMMA AddKeeps ==
  ASSUME TypeOK, Inv, NEW t \in Threads, NEW i \in Indices, NEW b \in Bitmaps,
         Add(t, i, b)
  PROVE  (TypeOK /\ Inv)'
<1>1. /\ lruCounter \in Nat /\ lruCounter' = lruCounter + 1
      /\ lruCounter + 1 \in 0 .. MaxAccesses
  BY CacheAssumption DEF TypeOK, Add
<1>2. adding'[t] \in Additions /\ adding'[t].entry.lruValue = lruCounter
  BY <1>1 DEF Add, Additions, Entries, TypeOK
<1>3. \A u \in Threads \ {t} : adding'[u] = adding[u] /\ pc'[u] = pc[u]
                               /\ since'[u] = since[u]
  BY DEF Add, TypeOK
<1>4. pc[t] = "idle" /\ pc'[t] = "add"
      /\ UNCHANGED <<cache, statistics, mutex, pruning, lastLaterThan>>
  BY DEF Add, TypeOK
<1>5. TypeOK'
  BY <1>1, <1>2, <1>4 DEF TypeOK, Add, statistics
<1>6. LockInv' /\ AddInv'
  BY <1>2, <1>3, <1>4 DEF Inv, LockInv, AddInv, Holding, Adding
<1>7. SizeInv' /\ CountInv' /\ LimitInv'
  BY <1>3, <1>4 DEF Inv, SizeInv, CountInv, LimitInv, statistics, Oldest
<1>8. \A k \in DOMAIN cache : cache[k].lruValue \in Nat
  BY DEF TypeOK, Entries
<1>9. \A u \in Threads : pc[u] \in Adding => adding[u].entry.lruValue \in Nat
  BY DEF Inv, AddInv, Additions, Entries
<1>10. LruInv'
  <2>1. \A k \in DOMAIN cache : cache[k].lruValue < lruCounter
    BY DEF Inv, LruInv
  <2>2. \A u \in Threads : pc[u] \in Adding =>
                            adding[u].entry.lruValue < lruCounter
    BY DEF Inv, LruInv
  <2> QED BY <1>1, <1>2, <1>3, <1>4, <1>8, <1>9, <2>1, <2>2
          DEF Inv, LruInv, Adding
<1>11. RecencyInv'
  <2>1. \A k : Settled(k)' <=> Settled(k)
    BY <1>3, <1>4 DEF Settled
  <2> QED BY <1>2, <1>3, <1>4, <2>1 DEF Inv, RecencyInv, LruInv
<1> QED BY <1>5, <1>6, <1>7, <1>10, <1>11 DEF Inv

LEMMA AddInsertKeeps ==
  ASSUME TypeOK, Inv, NEW t \in Threads, AddInsert(t)
  PROVE  (TypeOK /\ Inv)'
<1> DEFINE i == adding[t].index
           e == adding[t].entry
<1>1. i \in Indices /\ e \in Entries /\ e.lruValue \in Nat
      /\ i \notin DOMAIN cache
  BY DEF AddInsert, Inv, AddInv, Adding, Additions, Entries
<1>2. /\ IsCache(cache') /\ cache'[i] = e
      /\ DOMAIN cache' = DOMAIN cache \cup {i}
      /\ \A k \in DOMAIN cache : cache'[k] = cache[k]
  BY <1>1 DEF AddInsert, With, IsCache, TypeOK
<1>3. /\ MemoryUsage(cache') = MemoryUsage(cache) + BitmapSize[e.bitmap]
      /\ ElementsCount(cache') = ElementsCount(cache) + 1
      /\ BitmapSize[e.bitmap] \in Nat
  BY <1>1, Inserting DEF AddInsert, TypeOK, IsCache
<1>4. /\ \A u \in Threads : pc[u] \notin Holding
      /\ \A u \in Threads \ {t} : pc'[u] = pc[u]
      /\ pc[t] = "add" /\ pc'[t] = "inserted" /\ mutex' = t
  BY CacheAssumption DEF AddInsert, Inv, LockInv, TypeOK
<1>5. /\ cacheSizeInBytes' = cacheSizeInBytes + BitmapSize[e.bitmap]
      /\ UNCHANGED <<lruCounter, cacheSubBlockCount, adding, pruning, since,
                     lastLaterThan>>
  BY DEF AddInsert, history
<1> HIDE DEF i, e
<1>6. TypeOK'
  <2>1. pc' \in [Threads -> PCs] /\ mutex' \in Threads \cup {Nobody}
    BY DEF AddInsert, TypeOK, PCs
  <2>2. cacheSizeInBytes' \in Nat
    BY <1>3, <1>5 DEF TypeOK
  <2> QED BY <1>2, <1>5, <2>1, <2>2 DEF TypeOK, IsCache, PCs
<1>7. LockInv'
  BY <1>4, CacheAssumption DEF LockInv, Holding
<1>8. AddInv'
  BY <1>2, <1>4, <1>5 DEF Inv, AddInv, Adding, Holding, i, e
<1>9. SizeInv' /\ CountInv'
  <2>1. cacheSizeInBytes = MemoryUsage(cache)
        /\ cacheSubBlockCount = ElementsCount(cache)
    BY <1>4 DEF Inv, SizeInv, CountInv, Holding
  <2>2. cacheSizeInBytes' = MemoryUsage(cache')
    BY <1>3, <1>5, <2>1
  <2>3. cacheSubBlockCount' = ElementsCount(cache') - 1
    <3>1. ElementsCount(cache) \in Nat
      BY <2>1 DEF TypeOK
    <3> QED BY <1>3, <1>5, <2>1, <3>1
  <2>4. \A u \in Threads : pc'[u] \notin {"overwriting", "evicting"}
    BY <1>4 DEF Holding
  <2> QED BY <1>4, <2>2, <2>3, <2>4 DEF SizeInv, CountInv
<1>10. LruInv'
  BY <1>1, <1>2, <1>4, <1>5 DEF Inv, LruInv, Adding, Holding, i, e
<1>11. RecencyInv'
  <2>1. /\ \A k \in Indices : Settled(k)' => k # i
        /\ \A k \in Indices : Settled(k)
    BY <1>4, <1>5 DEF Settled, Holding, i
  <2>2. DOMAIN cache \subseteq Indices
    BY DEF TypeOK
  <2>3. pc[t] \in Adding
    BY <1>4 DEF Adding
  <2>4. \A u \in Threads \ {t} : pc'[u] \in Adding <=> pc[u] \in Adding
    BY <1>4
  <2>5. ASSUME NEW k \in DOMAIN cache', Settled(k)'
        PROVE  k \in DOMAIN cache /\ Settled(k)
    <3>1. k \in Indices
      BY <1>1, <1>2, <2>2
    <3> QED BY <1>2, <2>1, <2>5, <3>1
  <2>6. \A k \in DOMAIN cache : cache'[k] = cache[k]
    BY <1>2
  <2> QED BY <1>5, <2>3, <2>4, <2>5, <2>6 DEF Inv, RecencyInv
<1>12. LimitInv'
  BY <1>4 DEF LimitInv, Holding
<1> QED BY <1>6, <1>7, <1>8, <1>9, <1>10, <1>11, <1>12 DEF Inv

LEMMA AddOverwriteKeeps ==
  ASSUME TypeOK, Inv, NEW t \in Threads, AddOverwrite(t)
  PROVE  (TypeOK /\ Inv)'
<1> DEFINE i == adding[t].index
           e == adding[t].entry
<1>1. i \in Indices /\ e \in Entries /\ i \in DOMAIN cache
  BY DEF AddOverwrite, Inv, AddInv, Adding, Additions
<1>2. /\ MemoryUsage(cache)
           = MemoryUsage(Without(i)) + BitmapSize[cache[i].bitmap]
      /\ MemoryUsage(Without(i)) \in Nat
      /\ BitmapSize[cache[i].bitmap] \in Nat
  <2>1. cache[i] \in Entries /\ IsCache(cache)
    BY <1>1 DEF TypeOK, IsCache
  <2> QED BY <1>1, <2>1, Inserting, ContentsFinite
<1>3. /\ \A u \in Threads : pc[u] \notin Holding
      /\ \A u \in Threads \ {t} : pc'[u] = pc[u]
      /\ pc[t] = "add" /\ pc'[t] = "overwriting" /\ mutex' = t
  BY CacheAssumption DEF AddOverwrite, Inv, LockInv, TypeOK
<1>4. /\ cacheSizeInBytes' = cacheSizeInBytes - BitmapSize[cache[i].bitmap]
      /\ UNCHANGED <<cache, lruCounter, cacheSubBlockCount, adding, pruning,
                     since, lastLaterThan>>
  BY DEF AddOverwrite, history
<1>5. cacheSizeInBytes = MemoryUsage(cache)
      /\ cacheSubBlockCount = ElementsCount(cache)
  BY <1>3 DEF Inv, SizeInv, CountInv, Holding
<1>6. /\ cacheSizeInBytes' = MemoryUsage(cache) - BitmapSize[cache[i].bitmap]
      /\ cacheSizeInBytes' \in Nat
  <2>1. cacheSizeInBytes' = MemoryUsage(cache) - BitmapSize[cache[i].bitmap]
    BY <1>4, <1>5, Zenon
  <2>2. MemoryUsage(cache) - BitmapSize[cache[i].bitmap] \in Nat
    BY <1>2, Difference
  <2> QED BY <2>1, <2>2, Zenon
<1>7. TypeOK'
  <2>1. pc' \in [Threads -> PCs] /\ mutex' \in Threads \cup {Nobody}
    BY DEF AddOverwrite, TypeOK, PCs
  <2> QED BY <1>4, <1>6, <2>1 DEF TypeOK, PCs
<1>8. LockInv'
  BY <1>3, CacheAssumption DEF LockInv, Holding
<1>9. AddInv'
  BY <1>1, <1>3, <1>4 DEF Inv, AddInv, Adding, Holding
<1>10. SizeInv' /\ CountInv'
  <2>1. \A u \in Threads : u # t => pc'[u] \notin Holding
    BY <1>3
  <2> QED BY <1>3, <1>4, <1>5, <1>6, <2>1 DEF SizeInv, CountInv, Holding
<1>11. LruInv'
  BY <1>3, <1>4 DEF Inv, LruInv, Adding
<1>12. RecencyInv'
  <2>1. \A k : Settled(k)' <=> Settled(k)
    BY <1>3, <1>4 DEF Settled
  <2> QED BY <1>3, <1>4, <2>1 DEF Inv, RecencyInv, Adding
<1>13. LimitInv'
  BY <1>3 DEF LimitInv, Holding
<1> QED BY <1>7, <1>8, <1>9, <1>10, <1>11, <1>12, <1>13 DEF Inv

\* The access of an Add ends: what it puts behind others in the history has an
\* older LRU value.
LEMMA AddReturnsKeeps ==
  ASSUME TypeOK, Inv, NEW t \in Threads, AddReturns(t),
         pc[t] \in {"inserted", "overwriting"},
         IsCache(cache'), DOMAIN cache' = DOMAIN cache,
         cache'[adding[t].index] = adding[t].entry,
         \A k \in DOMAIN cache : k # adding[t].index => cache'[k] = cache[k],
         MemoryUsage(cache') \in Nat,
         cacheSizeInBytes' = MemoryUsage(cache'),
         cacheSubBlockCount' = ElementsCount(cache'),
         UNCHANGED <<lruCounter, pruning>>
  PROVE  (TypeOK /\ Inv)'
<1> DEFINE i == adding[t].index
           e == adding[t].entry
<1>1. i \in Indices /\ e \in Entries /\ e.lruValue \in Nat
      /\ i \in DOMAIN cache
  BY DEF Inv, AddInv, Adding, Additions, Entries
<1>2. /\ \A u \in Threads \ {t} : pc[u] \notin Holding
      /\ \A u \in Threads \ {t} : pc'[u] = pc[u] /\ adding'[u] = adding[u]
                                  /\ since'[u] = since[u] \ {i}
      /\ pc'[t] = "idle" /\ mutex' = Nobody
  BY DEF AddReturns, Inv, LockInv, TypeOK, Holding
<1>3. lastLaterThan' = {p \in lastLaterThan : i \notin {p[1], p[2]}}
                         \cup ({i} \X (since[t] \ {i}))
  BY DEF AddReturns, Accessed
<1>4. ElementsCount(cache') \in Nat
  BY ContentsFinite
<1>5. cache'[i] = e /\ \A k \in DOMAIN cache \ {i} : cache'[k] = cache[k]
  OBVIOUS
<1>6. TypeOK'
  <2>1. pc' \in [Threads -> PCs]
    BY DEF AddReturns, TypeOK, PCs
  <2>2. adding' \in [Threads -> Additions \cup {NoAddition}]
    BY DEF AddReturns, TypeOK
  <2>3. since' \in [Threads -> SUBSET Indices]
    BY DEF AddReturns, TypeOK
  <2>4. lastLaterThan' \subseteq Indices \X Indices
    BY <1>1, <1>3 DEF TypeOK
  <2> QED BY <1>2, <1>4, <2>1, <2>2, <2>3, <2>4 DEF TypeOK, IsCache, PCs
<1> HIDE DEF i, e
<1>7. LockInv' /\ LimitInv'
  BY <1>2, CacheAssumption DEF LockInv, LimitInv, Holding
<1>8. AddInv'
  BY <1>2 DEF Inv, AddInv, Adding, Holding
<1>9. SizeInv' /\ CountInv'
  BY <1>2 DEF SizeInv, CountInv, Holding
<1>10. pc[t] \in Adding
  BY DEF Adding
<1>11. /\ e.lruValue < lruCounter
       /\ \A k \in DOMAIN cache \ {i} : cache[k].lruValue # e.lruValue
  <2>1. pc[t] = "inserted" => cache[i] = e
    BY DEF Inv, AddInv, i, e
  <2> QED BY <1>1, <1>10, <2>1 DEF Inv, LruInv, e
<1>12. LruInv'
  <2>1. \A k \in DOMAIN cache' : cache'[k].lruValue < lruCounter'
    BY <1>5, <1>11 DEF Inv, LruInv
  <2>2. \A k, l \in DOMAIN cache' :
          cache'[k].lruValue = cache'[l].lruValue => k = l
    BY <1>5, <1>11 DEF Inv, LruInv
  <2>3. \A u \in Threads : pc'[u] \in Adding =>
          u # t /\ pc[u] = "add" /\ pc'[u] = "add" /\ adding'[u] = adding[u]
    BY <1>2 DEF Adding, Holding
  <2>4. ASSUME NEW u \in Threads, pc'[u] \in Adding
        PROVE  \A k \in DOMAIN cache' :
                 cache'[k].lruValue # adding'[u].entry.lruValue
    BY <1>5, <1>10, <2>3, <2>4 DEF Inv, LruInv, Adding, e
  <2> QED BY <1>10, <2>1, <2>2, <2>3, <2>4 DEF Inv, LruInv, Adding
<1>13. \A k \in DOMAIN cache \ {i} : Settled(k)
  BY <1>2 DEF Settled, Holding, i
<1>14. RecencyInv'
  <2>1. ASSUME NEW j \in DOMAIN cache', NEW k \in DOMAIN cache',
               <<j, k>> \in lastLaterThan'
        PROVE  cache'[k].lruValue < cache'[j].lruValue
    <3>1. CASE <<j, k>> \in {i} \X (since[t] \ {i})
      BY <1>5, <1>10, <1>13, <2>1, <3>1 DEF Inv, RecencyInv, e
    <3>2. CASE <<j, k>> \in lastLaterThan /\ j # i /\ k # i
      BY <1>5, <1>13, <2>1, <3>2 DEF Inv, RecencyInv
    <3> QED BY <1>3, <2>1, <3>1, <3>2
  <2>2. ASSUME NEW u \in Threads, pc'[u] \in Adding,
               NEW k \in since'[u] \cap DOMAIN cache'
        PROVE  cache'[k].lruValue < adding'[u].entry.lruValue
    <3>1. u # t /\ pc[u] \in Adding /\ adding'[u] = adding[u]
          /\ k \in since[u] /\ k # i
      BY <1>2, <2>2 DEF Adding
    <3> QED BY <1>5, <1>13, <3>1 DEF Inv, RecencyInv
  <2> QED BY <2>1, <2>2 DEF RecencyInv
<1> QED BY <1>6, <1>7, <1>8, <1>9, <1>12, <1>14 DEF Inv

LEMMA AddInsertedKeeps ==
  ASSUME TypeOK, Inv, NEW t \in Threads, AddInserted(t)
  PROVE  (TypeOK /\ Inv)'
<1>1. IsCache(cache) /\ UNCHANGED <<cache, cacheSizeInBytes>>
  BY DEF AddInserted, TypeOK, IsCache
<1>2. MemoryUsage(cache) \in Nat /\ ElementsCount(cache) \in Nat
  BY <1>1, ContentsFinite
<1>3. \A u \in Threads : pc[u] \notin {"overwriting", "evicting"}
  BY DEF Inv, LockInv, AddInserted, Holding
<1>4. cacheSizeInBytes = MemoryUsage(cache)
  BY <1>3 DEF Inv, SizeInv
<1>5. cacheSubBlockCount' = ElementsCount(cache)
  <2>1. cacheSubBlockCount = ElementsCount(cache) - 1
    BY DEF Inv, CountInv, AddInserted
  <2> QED BY <1>2, <2>1 DEF AddInserted
<1>6. /\ cache[adding[t].index] = adding[t].entry /\ AddReturns(t)
      /\ pc[t] = "inserted" /\ UNCHANGED <<lruCounter, pruning>>
  BY DEF Inv, AddInv, AddInserted
<1> QED BY <1>1, <1>2, <1>4, <1>5, <1>6, AddReturnsKeeps

LEMMA AddOverwrittenKeeps ==
  ASSUME TypeOK, Inv, NEW t \in Threads, AddOverwritten(t)
  PROVE  (TypeOK /\ Inv)'
<1> DEFINE i == adding[t].index
           e == adding[t].entry
<1>1. i \in Indices /\ e \in Entries /\ i \in DOMAIN cache
  BY DEF AddOverwritten, Inv, AddInv, Adding, Additions
<1>2. cache' = With(i, e) /\ IsCache(cache)
  BY DEF AddOverwritten, TypeOK, IsCache
<1>3. /\ IsCache(cache') /\ IsCache(Without(i))
      /\ MemoryUsage(cache)
           = MemoryUsage(Without(i)) + BitmapSize[cache[i].bitmap]
      /\ MemoryUsage(cache') = MemoryUsage(Without(i)) + BitmapSize[e.bitmap]
      /\ ElementsCount(cache') = ElementsCount(cache)
      /\ BitmapSize[e.bitmap] \in Nat
  BY <1>1, <1>2, Inserting
<1>4. MemoryUsage(Without(i)) \in Nat /\ BitmapSize[cache[i].bitmap] \in Nat
  <2>1. cache[i] \in Entries
    BY <1>1, <1>2 DEF IsCache
  <2> QED BY <1>3, <2>1, ContentsFinite, BytesOfSize
<1>5. cacheSizeInBytes = MemoryUsage(cache) - BitmapSize[cache[i].bitmap]
  BY DEF Inv, SizeInv, AddOverwritten
<1>6. cacheSizeInBytes' = MemoryUsage(cache') /\ MemoryUsage(cache') \in Nat
  <2>1. cacheSizeInBytes' = cacheSizeInBytes + BitmapSize[e.bitmap]
    BY DEF AddOverwritten
  <2> DEFINE part == BitmapSize[cache[i].bitmap]
             rest == MemoryUsage(Without(i))
  <2>2. cacheSizeInBytes = rest
    <3>1. /\ part \in Nat /\ rest \in Nat
          /\ cacheSizeInBytes = MemoryUsage(cache) - part
          /\ MemoryUsage(cache) = rest + part
      BY <1>3, <1>4, <1>5, Zenon
    <3> HIDE DEF part, rest
    <3> QED BY <3>1
  <2>3. MemoryUsage(Without(i)) + BitmapSize[e.bitmap] \in Nat
    BY <1>3, <1>4, Difference
  <2> QED BY <1>3, <2>1, <2>2, <2>3, Zenon
<1>7. \A u \in Threads : pc[u] # "inserted"
  BY DEF Inv, LockInv, AddOverwritten, Holding
<1>8. cacheSubBlockCount' = ElementsCount(cache')
  BY <1>3, <1>7 DEF Inv, CountInv, AddOverwritten
<1>9. /\ DOMAIN cache' = DOMAIN cache /\ cache'[i] = e
      /\ \A k \in DOMAIN cache : k # i => cache'[k] = cache[k]
  BY <1>1, <1>2 DEF With
<1>10. /\ AddReturns(t) /\ pc[t] = "overwriting"
       /\ UNCHANGED <<lruCounter, pruning>>
  BY DEF AddOverwritten
<1> QED BY <1>3, <1>6, <1>8, <1>9, <1>10, AddReturnsKeeps

LEMMA PruneKeeps ==
  ASSUME TypeOK, Inv, NEW t \in Threads, NEW options \in PruneOptions,
         Prune(t, options)
  PROVE  (TypeOK /\ Inv)'
<1>1. /\ \A u \in Threads : pc[u] \notin Holding
      /\ \A u \in Threads \ {t} : pc'[u] = pc[u]
      /\ pc[t] = "idle" /\ pc'[t] = "pruning" /\ mutex' = t
      /\ UNCHANGED <<cache, lruCounter, cacheSizeInBytes, cacheSubBlockCount,
                     adding, since, lastLaterThan>>
  BY CacheAssumption
     DEF Prune, Inv, LockInv, TypeOK, statistics, history
<1>2. TypeOK'
  <2>1. pc' \in [Threads -> PCs] /\ mutex' \in Threads \cup {Nobody}
        /\ pruning' \in [Threads -> PruneOptions \cup {NoLimits}]
    BY DEF Prune, TypeOK, PCs
  <2> QED BY <1>1, <2>1 DEF TypeOK, PCs
<1>3. LockInv' /\ LimitInv'
  BY <1>1, CacheAssumption DEF LockInv, LimitInv, Holding
<1>4. AddInv' /\ LruInv'
  BY <1>1 DEF Inv, AddInv, LruInv, Adding, Holding
<1>5. SizeInv' /\ CountInv'
  BY <1>1 DEF Inv, SizeInv, CountInv, Holding
<1>6. RecencyInv'
  <2>1. \A k : Settled(k)' <=> Settled(k)
    BY <1>1 DEF Settled, Holding
  <2> QED BY <1>1, <2>1 DEF Inv, RecencyInv, Adding
<1> QED BY <1>2, <1>3, <1>4, <1>5, <1>6 DEF Inv

LEMMA PruneSubtractKeeps ==
  ASSUME TypeOK, Inv, NEW t \in Threads, NEW i \in Indices,
         PruneSubtract(t, i)
  PROVE  (TypeOK /\ Inv)'
<1>1. /\ \A u \in Threads \ {t} : pc[u] \notin Holding /\ pc'[u] = pc[u]
      /\ pc[t] = "pruning" /\ pc'[t] = "evicting"
      /\ UNCHANGED <<cache, lruCounter, cacheSubBlockCount, mutex, adding,
                     pruning, since, lastLaterThan>>
  BY DEF PruneSubtract, Inv, LockInv, TypeOK, history, Holding
<1>2. /\ cacheSizeInBytes = MemoryUsage(cache)
      /\ cacheSubBlockCount = ElementsCount(cache)
  BY <1>1 DEF Inv, SizeInv, CountInv, Holding
<1>3. i \in DOMAIN cache /\ IsCache(cache) /\ cache[i] \in Entries
  BY DEF PruneSubtract, Oldest, TypeOK, IsCache
<1>4. /\ MemoryUsage(cache)
           = MemoryUsage(Without(i)) + BitmapSize[cache[i].bitmap]
      /\ MemoryUsage(Without(i)) \in Nat
      /\ BitmapSize[cache[i].bitmap] \in Nat
  BY <1>3, Inserting, ContentsFinite
<1>5. /\ cacheSizeInBytes' = MemoryUsage(cache) - BitmapSize[cache[i].bitmap]
      /\ cacheSizeInBytes' \in Nat
  BY <1>2, <1>4 DEF PruneSubtract
<1>6. TypeOK'
  <2>1. pc' \in [Threads -> PCs]
    BY DEF PruneSubtract, TypeOK, PCs
  <2> QED BY <1>1, <1>5, <2>1 DEF TypeOK, PCs
<1>7. LockInv'
  BY <1>1 DEF Inv, LockInv, Holding
<1>8. AddInv' /\ LruInv'
  BY <1>1 DEF Inv, AddInv, LruInv, Adding, Holding
<1>9. SizeInv' /\ CountInv'
  <2>1. ASSUME NEW k \in Indices, Oldest(k)'
        PROVE  k = i
    <3>1. Oldest(k) /\ Oldest(i)
      BY <1>1, <2>1 DEF Oldest, PruneSubtract
    <3>2. \A l \in DOMAIN cache : cache[l].lruValue \in Nat
      BY DEF TypeOK, Entries
    <3>3. cache[k].lruValue = cache[i].lruValue
      BY <3>1, <3>2 DEF Oldest
    <3> QED BY <3>1, <3>3 DEF Inv, LruInv, Oldest
  <2>2. SizeInv'
    BY <1>1, <1>5, <2>1 DEF SizeInv, Holding
  <2>3. CountInv'
    BY <1>1, <1>2 DEF CountInv, Holding
  <2> QED BY <2>2, <2>3
<1>10. RecencyInv'
  <2>1. \A k : Settled(k)' <=> Settled(k)
    BY <1>1 DEF Settled, Holding
  <2> QED BY <1>1, <2>1 DEF Inv, RecencyInv, Adding
<1>11. LimitInv'
  BY <1>1, <1>2 DEF LimitInv, Holding, PruneSubtract, Exceeds
<1> QED BY <1>6, <1>7, <1>8, <1>9, <1>10, <1>11 DEF Inv

LEMMA PruneEraseKeeps ==
  ASSUME TypeOK, Inv, NEW t \in Threads, NEW i \in Indices, PruneErase(t, i)
  PROVE  (TypeOK /\ Inv)'
<1>1. /\ \A u \in Threads \ {t} : pc[u] \notin Holding /\ pc'[u] = pc[u]
      /\ pc[t] = "evicting" /\ pc'[t] = "pruning"
      /\ UNCHANGED <<lruCounter, cacheSizeInBytes, mutex, adding, pruning,
                     since>>
  BY DEF PruneErase, Inv, LockInv, TypeOK, Forget, Holding
<1>2. i \in DOMAIN cache /\ IsCache(cache) /\ cache[i] \in Entries
      /\ Oldest(i) /\ cache' = Without(i)
  BY DEF PruneErase, Oldest, TypeOK, IsCache
<1>3. /\ MemoryUsage(cache)
           = MemoryUsage(cache') + BitmapSize[cache[i].bitmap]
      /\ ElementsCount(cache) = ElementsCount(cache') + 1
      /\ MemoryUsage(cache') \in Nat /\ ElementsCount(cache') \in Nat
      /\ IsCache(cache')
      /\ BitmapSize[cache[i].bitmap] \in Nat
  BY <1>2, Inserting, ContentsFinite
<1>4. /\ DOMAIN cache' = DOMAIN cache \ {i}
      /\ \A k \in DOMAIN cache' : cache'[k] = cache[k]
  BY <1>2 DEF Without
<1>5. cacheSizeInBytes' = MemoryUsage(cache')
  <2>1. cacheSizeInBytes = MemoryUsage(cache) - BitmapSize[cache[i].bitmap]
    BY <1>1, <1>2 DEF Inv, SizeInv
  <2> QED BY <1>1, <1>3, <2>1
<1>6. cacheSubBlockCount' = ElementsCount(cache')
  <2>1. cacheSubBlockCount = ElementsCount(cache)
    BY <1>1 DEF Inv, CountInv, Holding
  <2> QED BY <1>3, <2>1 DEF PruneErase
<1>7. lastLaterThan' \subseteq lastLaterThan
  BY DEF PruneErase, Forget
<1>8. TypeOK'
  <2>1. pc' \in [Threads -> PCs]
    BY DEF PruneErase, TypeOK, PCs
  <2> QED BY <1>1, <1>3, <1>5, <1>6, <1>7, <2>1 DEF TypeOK, PCs, IsCache
<1>9. LockInv' /\ LimitInv'
  BY <1>1 DEF Inv, LockInv, LimitInv, Holding
<1>10. AddInv' /\ LruInv'
  BY <1>1, <1>4 DEF Inv, AddInv, LruInv, Adding, Holding
<1>11. SizeInv' /\ CountInv'
  BY <1>1, <1>5, <1>6 DEF SizeInv, CountInv, Holding
<1>12. RecencyInv'
  <2>1. \A k : Settled(k)' <=> Settled(k)
    BY <1>1 DEF Settled, Holding
  <2> QED BY <1>1, <1>4, <1>7, <2>1 DEF Inv, RecencyInv, Adding
<1> QED BY <1>8, <1>9, <1>10, <1>11, <1>12 DEF Inv

LEMMA PruneReturnsKeeps ==
  ASSUME TypeOK, Inv, NEW t \in Threads, PruneReturns(t)
  PROVE  (TypeOK /\ Inv)'
<1>1. /\ \A u \in Threads \ {t} : pc[u] \notin Holding /\ pc'[u] = pc[u]
      /\ pc[t] = "pruning" /\ pc'[t] = "idle" /\ mutex' = Nobody
      /\ UNCHANGED <<cache, lruCounter, cacheSizeInBytes, cacheSubBlockCount,
                     adding, since, lastLaterThan>>
  BY DEF PruneReturns, Inv, LockInv, TypeOK, statistics, history, Holding
<1>2. TypeOK'
  <2>1. pc' \in [Threads -> PCs]
        /\ pruning' \in [Threads -> PruneOptions \cup {NoLimits}]
    BY DEF PruneReturns, TypeOK, PCs
  <2> QED BY <1>1, <2>1 DEF TypeOK, PCs
<1>3. LockInv' /\ LimitInv'
  BY <1>1, CacheAssumption DEF LockInv, LimitInv, Holding
<1>4. AddInv' /\ LruInv'
  BY <1>1 DEF Inv, AddInv, LruInv, Adding, Holding
<1>5. SizeInv' /\ CountInv'
  BY <1>1 DEF Inv, SizeInv, CountInv, Holding
<1>6. RecencyInv'
  <2>1. \A k : Settled(k)' <=> Settled(k)
    BY <1>1 DEF Settled, Holding
  <2> QED BY <1>1, <2>1 DEF Inv, RecencyInv, Adding
<1> QED BY <1>2, <1>3, <1>4, <1>5, <1>6 DEF Inv

LEMMA InvNext == TypeOK /\ Inv /\ [Next]_vars => (TypeOK /\ Inv)'
<1> SUFFICES ASSUME TypeOK, Inv, [Next]_vars PROVE (TypeOK /\ Inv)'
  OBVIOUS
<1>1. CASE UNCHANGED vars
  BY <1>1 DEF vars, statistics, history, TypeOK, Inv, LockInv, AddInv,
     SizeInv, CountInv, LruInv, RecencyInv, LimitInv, Settled, Oldest
<1>2. CASE Next
  BY <1>2, GetKeeps, AddKeeps, AddInsertKeeps, AddOverwriteKeeps,
     AddInsertedKeeps, AddOverwrittenKeeps, PruneKeeps, PruneSubtractKeeps,
     PruneEraseKeeps, PruneReturnsKeeps
     DEF Next, AddStep, PruneStep
<1> QED BY <1>1, <1>2

LEMMA Invariance == Spec => [](TypeOK /\ Inv)
BY Init0, InvNext, PTL DEF Spec

-----------------------------------------------------------------------------
(* The theorems. *)

\* The members of the cache keep their types; the unsigned statistics of
\* AddOverwrite and PruneSubtract never go below zero.
THEOREM TypeCorrect == Spec => []TypeOK
BY Invariance, PTL

\* Whenever no thread holds the mutex, the statistics are those of the map,
\* for any threads, bitmaps, limits and order of calls.
THEOREM StatisticsAreASnapshot == Spec => []Snapshot
<1>1. TypeOK /\ Inv => Snapshot
  BY CacheAssumption
     DEF Inv, LockInv, SizeInv, CountInv, Snapshot, Holding
<1> QED BY <1>1, Invariance, PTL

\* A step only removes an index from the map if it is a PruneErase of it.
LEMMA OnlyPruneEvicts ==
  ASSUME TypeOK, Inv, [Next]_vars, NEW i \in DOMAIN cache \ DOMAIN cache'
  PROVE  \E t \in Threads : PruneErase(t, i)
<1>1. i \in Indices
  BY DEF TypeOK
<1>2. CASE UNCHANGED vars
  BY <1>2 DEF vars
<1>3. ASSUME NEW k \in Indices, Get(k) PROVE FALSE
  BY <1>3, Touching
<1>4. ASSUME NEW t \in Threads, NEW k \in Indices, NEW b \in Bitmaps,
             Add(t, k, b)
      PROVE  FALSE
  BY <1>4 DEF Add
<1>5. ASSUME NEW t \in Threads, AddStep(t) PROVE FALSE
  BY <1>5 DEF AddStep, AddInsert, AddOverwrite, AddInserted, AddOverwritten,
              With
<1>6. ASSUME NEW t \in Threads, NEW options \in PruneOptions,
             Prune(t, options)
      PROVE  FALSE
  BY <1>6 DEF Prune
<1>7. ASSUME NEW t \in Threads, NEW k \in Indices, PruneSubtract(t, k)
      PROVE  FALSE
  BY <1>7 DEF PruneSubtract
<1>8. ASSUME NEW t \in Threads, PruneReturns(t) PROVE FALSE
  BY <1>8 DEF PruneReturns
<1>9. ASSUME NEW t \in Threads, NEW k \in Indices, PruneErase(t, k)
      PROVE  k = i
  BY <1>9 DEF PruneErase, Without
<1> QED BY <1>1, <1>2, <1>3, <1>4, <1>5, <1>6, <1>7, <1>8, <1>9
        DEF Next, PruneStep

\* Prune never evicts i and keeps k if the last access of i to end began after
\* all accesses of k had ended.
THEOREM LeastRecentlyUsed == Spec => EvictsLeastRecentlyUsed
<1>1. TypeOK /\ Inv /\ [Next]_vars =>
        \A i \in DOMAIN cache \ DOMAIN cache' :
          \A k \in DOMAIN cache' : <<i, k>> \notin lastLaterThan
  <2> SUFFICES ASSUME TypeOK, Inv, [Next]_vars,
                      NEW i \in DOMAIN cache \ DOMAIN cache',
                      NEW k \in DOMAIN cache', <<i, k>> \in lastLaterThan
               PROVE  FALSE
    OBVIOUS
  <2>1. PICK t \in Threads : PruneErase(t, i)
    BY OnlyPruneEvicts
  <2>2. k \in DOMAIN cache /\ cache[i].lruValue <= cache[k].lruValue
    BY <2>1 DEF PruneErase, Oldest, Without
  <2>3. Settled(i) /\ Settled(k)
    BY <2>1 DEF PruneErase, Settled, Inv, LockInv, Holding
  <2>4. cache[k].lruValue < cache[i].lruValue
    BY <2>2, <2>3 DEF Inv, RecencyInv
  <2>5. cache[k].lruValue \in Nat /\ cache[i].lruValue \in Nat
    BY <2>2 DEF TypeOK, Entries
  <2> QED BY <2>2, <2>4, <2>5
<1>2. (TypeOK /\ Inv) /\ [Next]_vars =>
        [\A i \in DOMAIN cache \ DOMAIN cache' :
           \A k \in DOMAIN cache' : <<i, k>> \notin lastLaterThan]_vars
  BY <1>1
<1> QED BY <1>2, Invariance, PTL DEF Spec, EvictsLeastRecentlyUsed

\* Prune returns only when the cache meets both limits, and evicts only while
\* it does not.
THEOREM PruneStopsAtTheLimits == Spec => PrunesToTheLimits
<1> DEFINE within(c, t) == /\ MemoryUsage(c) <= pruning[t].maxMemoryUsage
                           /\ ElementsCount(c) <= pruning[t].maxSubBlockCount
           Limited == \A t \in Threads :
             /\ pc[t] = "pruning" /\ pc'[t] = "idle" => within(cache, t)
             /\ pc[t] = "evicting" /\ pc'[t] # "evicting" => ~within(cache, t)
<1>1. TypeOK /\ Inv /\ [Next]_vars => Limited
  <2> SUFFICES ASSUME TypeOK, Inv, [Next]_vars, NEW t \in Threads
               PROVE  /\ pc[t] = "pruning" /\ pc'[t] = "idle" =>
                           within(cache, t)
                      /\ pc[t] = "evicting" => ~within(cache, t)
    OBVIOUS
  <2>1. /\ pruning[t].maxMemoryUsage \in Nat
        /\ pruning[t].maxSubBlockCount \in Nat
    BY CacheAssumption DEF TypeOK, NoLimits
  <2>2. IsCache(cache)
    BY DEF TypeOK, IsCache
  <2>3. MemoryUsage(cache) \in Nat /\ ElementsCount(cache) \in Nat
    BY <2>2, ContentsFinite
  <2>4. ASSUME pc[t] = "pruning", pc'[t] = "idle"
        PROVE  within(cache, t)
    <3>1. \A u \in Threads \ {t} : pc[u] \notin Holding
      BY <2>4 DEF Inv, LockInv, Holding
    <3>2. /\ cacheSizeInBytes = MemoryUsage(cache)
          /\ cacheSubBlockCount = ElementsCount(cache)
      BY <2>4, <3>1 DEF Inv, SizeInv, CountInv, Holding
    <3>3. PruneReturns(t)
      BY <2>4, <3>1 DEF vars, Next, AddStep, PruneStep, TypeOK, Holding, Get,
         Add, AddInsert, AddOverwrite, AddInserted, AddOverwritten,
         AddReturns, Prune, PruneSubtract, PruneErase, PruneReturns
    <3>4. CASE ~Exceeds(pruning[t])
      BY <2>1, <2>3, <3>2, <3>4 DEF Exceeds
    <3>5. CASE DOMAIN cache = {}
      BY <2>1, <2>2, <3>5, NothingCached
    <3> QED BY <3>3, <3>4, <3>5 DEF PruneReturns
  <2>5. ASSUME pc[t] = "evicting"
        PROVE  ~within(cache, t)
    BY <2>1, <2>3, <2>5 DEF Inv, LimitInv
  <2> QED BY <2>4, <2>5
<1>2. (TypeOK /\ Inv) /\ [Next]_vars => [Limited]_vars
  BY <1>1
<1> QED BY <1>2, Invariance, PTL DEF Spec, PrunesToTheLimits

=============================================================================
