-------------------------- MODULE DEMemDataManager --------------------------
(***************************************************************************)
(* The buffers of a download task                                          *)
(* (DownloadEngine/src/filesystem/DEMemDataManager.cpp) and the LRU list   *)
(* of the blocks that have been read (utils/DELRUCache.h).                 *)
(*                                                                         *)
(* A file is cut into blocks of defaultBufferSize (trunck_index), a pool   *)
(* of memory into buffers of that size.  The index of a buffer is in the   *)
(* free set, is held by the segment that fills it, or is the place of a    *)
(* downloaded block.  Blocks that have been read stay as long as they are  *)
(* among the CacheSize blocks read last; the others stay until a seek.     *)
(*                                                                         *)
(* The operations are state functions of the parts of the manager they     *)
(* read; DETask, which calls them on the loop's thread, makes steps of     *)
(* them.  Positions and sizes are counted in blocks.                       *)
(***************************************************************************)
EXTENDS Integers, FiniteSets

CONSTANTS
  Buffers,  \* the indices of the buffers
  CacheSize \* max_entries of the LRU list

NoBuffer == -1 \* what acquireBuffer returns if nothing is free

ASSUME BuffersAssumption ==
  /\ Buffers \subseteq Nat /\ IsFiniteSet(Buffers)
  /\ CacheSize \in Nat \ {0}

VARIABLES
  mFreeSegmentIndex,   \* the free buffers
  mDownloadedSegments, \* downloaded block |-> its buffer
  mReadCache,          \* block read lately |-> its place in the list, 0 first
  content              \* the data in each buffer: that of a block, or a mixture

Mixture == -2 \* data of two blocks, or of none

Restricted(f, S) == [x \in DOMAIN f \cap S |-> f[x]]

isPositionCached(downloaded, k) == k \in DOMAIN downloaded

\* (The operators named ..._mut are the plausible mistakes the properties of
\* DETask are tested against; the specification does not use them.)
isEnoughFreespace_mut(free, needSpace) == Cardinality(free) >= 1
isEnoughFreespace(free, needSpace) == Cardinality(free) >= needSpace

\* The first free index; which one it is makes no difference.
acquireBuffer(free) == IF free = {} THEN NoBuffer ELSE CHOOSE b \in free : TRUE

Written(downloaded, k, b) ==
  [j \in DOMAIN downloaded \cup {k} |-> IF j = k THEN b ELSE downloaded[j]]

\* The data of block k, its beginning or (when rest) the rest of it, is copied
\* into buffer b.
Filled(contents, b, k, rest) ==
  [contents EXCEPT ![b] = IF rest /\ @ # k THEN Mixture ELSE k]

-----------------------------------------------------------------------------
(***************************************************************************)
(* DELRUCache::set, and the eviction in DEMemDataManager::read.            *)
(***************************************************************************)

\* The entry a new one replaces: the last of a full list.
Replaced_mut(cache, k) ==
  IF k \in DOMAIN cache \/ Cardinality(DOMAIN cache) < CacheSize THEN {}
  ELSE {j \in DOMAIN cache : \A i \in DOMAIN cache : cache[j] <= cache[i]}
Replaced(cache, k) ==
  IF k \in DOMAIN cache \/ Cardinality(DOMAIN cache) < CacheSize THEN {}
  ELSE {j \in DOMAIN cache : \A i \in DOMAIN cache : cache[i] <= cache[j]}

\* k goes to the front; what was in front of its old place moves back.
Accessed(cache, k) ==
  [j \in (DOMAIN cache \ Replaced(cache, k)) \cup {k} |->
     IF j = k THEN 0
     ELSE IF k \in DOMAIN cache /\ cache[k] < cache[j] THEN cache[j]
     ELSE cache[j] + 1]

\* The block that is replaced gives its buffer back.
FreeAfterRead(free, downloaded, cache, k) ==
  free \cup {downloaded[j] : j \in Replaced(cache, k) \cap DOMAIN downloaded}
DownloadedAfterRead(downloaded, cache, k) ==
  Restricted(downloaded, DOMAIN downloaded \ Replaced(cache, k))

-----------------------------------------------------------------------------
(***************************************************************************)
(* purgeBuffers: blocks that have not been read lately give theirs back.   *)
(***************************************************************************)

FreeAfterPurge_mut(free, downloaded, cache) ==
  free \cup {downloaded[j] : j \in DOMAIN downloaded}
FreeAfterPurge(free, downloaded, cache) ==
  free \cup {downloaded[j] : j \in DOMAIN downloaded \ DOMAIN cache}
DownloadedAfterPurge(downloaded, cache) == Restricted(downloaded, DOMAIN cache)

=============================================================================
