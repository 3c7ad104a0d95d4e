-------------------------- MODULE MCSubBlockCache --------------------------
(***************************************************************************)
(* Instances of SubBlockCache for TLC: two bitmaps of different sizes, and *)
(* limits of which either can be the one that makes Prune evict.           *)
(***************************************************************************)
EXTENDS SubBlockCache

CONSTANTS small, large

MCBitmapSize == [b \in Bitmaps |-> IF b = small THEN 1 ELSE 3]
MCPruneOptions ==
  {[maxMemoryUsage |-> 100, maxSubBlockCount |-> 1],
   [maxMemoryUsage |-> 3, maxSubBlockCount |-> 100]}
=============================================================================
