------------------------------- MODULE DETask -------------------------------
(***************************************************************************)
(* One download task (DownloadEngine/src/task/DEBaseTask.cpp,              *)
(* DECurlTask.cpp, DECurlHttpTask.cpp), the completions of its transfers   *)
(* (network/DENetwork.cpp), its buffers (DEMemDataManager) and the data    *)
(* source that reads it (datasource/NBBeastSource.cpp).                    *)
(*                                                                         *)
(* The task runs on the thread of the loop, one callback or command        *)
(* (DELooper) at a time, so each is one step: data of a transfer, the end  *)
(* of a transfer, the task's timer, and the source's seek and read.  What  *)
(* interleaves is the order in which they come, and one of them can happen *)
(* inside another: launching a segment calls libcurl, which may find the   *)
(* end of another transfer and call back (EndsInside).                     *)
(*                                                                         *)
(* The file is fetched in segments, each an HTTP transfer of a range, at   *)
(* most MaxParallelNum at a time; mCurrWritePosition is where the next one *)
(* is looked for.  Positions are blocks.  Whether the file's last block is *)
(* a full one (Aligned) is kept: with it the end of the file and the end   *)
(* of a segment that was asked for before the size was known coincide.     *)
(*                                                                         *)
(* Assumed of the server: ranges are served with a Content-Range header.   *)
(* Of libcurl, in what is checked and proved of every behaviour            *)
(* (EndsInside = FALSE): the last data of a transfer is delivered by the   *)
(* call after which its end is looked at, and no end is found while a      *)
(* segment is launched.  The code does nothing to have it so: the call in  *)
(* DECurlHttpTask.cpp:103 is not followed by checkMultiInfo, and           *)
(* curl_multi_add_handle (:98) calls the timer callback, which with a      *)
(* timeout of 0 runs checkMultiInfo (DENetwork.cpp:79-80, 63).  With       *)
(* EndsInside = TRUE both happen, and the code's own promises are broken.  *)
(***************************************************************************)
EXTENDS DEMemDataManager

CONSTANTS
  NBlocks,         \* blocks of the file
  Aligned,         \* the file's size is a multiple of a block's
  MaxParallelSize, \* blocks of a segment
  MaxParallelNum,  \* segments at a time
  EndsInside,      \* ends of transfers may be found inside calls of libcurl
  MaxSeeks, MaxErrors \* bounds on the source's seeks and on failed transfers

ASSUME TaskAssumption ==
  /\ NBlocks \in Nat \ {0} /\ MaxParallelSize \in Nat \ {0}
  /\ MaxParallelNum \in Nat \ {0} /\ Aligned \in BOOLEAN /\ EndsInside \in BOOLEAN
  /\ MaxSeeks \in Nat /\ MaxErrors \in Nat
  /\ MaxParallelSize <= Cardinality(Buffers)

VARIABLES
  mTaskPriv,          \* the segments
  mCurrWritePosition, \* where the next segment is looked for
  mCurrReadPosition,
  mTaskSize,          \* 0 until the first response tells the size
  mIsGettingSize,
  client,             \* the source: creating, created, open, seeking or failed
  error,              \* an error it has been told of, cleared before a seek
  seeks, errors       \* how many there have been

bufferVars == <<mFreeSegmentIndex, mDownloadedSegments, mReadCache, content>>
clientVars == <<mCurrReadPosition, client, error, seeks, errors>>
vars == <<bufferVars, mTaskPriv, mCurrWritePosition, mTaskSize, mIsGettingSize, clientVars>>

Blocks == 0 .. NBlocks - 1

\* A segment (DE_NETWORK_TASK_PRIV) has its range [begin, end), the block being
\* received (pos), whether a part of it has been (partial), its buffer (buf),
\* and the blocks that still need one (todo, needSpace is their number); clipped
\* tells whether the end was computed from the file's size.
EndsFile(s, size) == s.end = size /\ (s.clipped \/ Aligned)

isProcessingPosition(segs, p) == \E s \in segs : s.begin <= p /\ p < s.end
Taken(segs, downloaded, p) ==
  isPositionCached(downloaded, p) \/ isProcessingPosition(segs, p)

\* queryNextDownload: the first run of blocks, from w on, that are neither
\* here nor under way, of at most MaxParallelSize; none if there is no such
\* block, but an empty one at the end of a file that ends with a full block.
NextDownload(segs, downloaded, w, size) ==
  {r \in [begin : w .. size, end : w .. size] :
     /\ r.begin <= r.end /\ (r.begin = size => Aligned)
     /\ r.begin # size => ~Taken(segs, downloaded, r.begin)
     /\ \A q \in w .. r.begin - 1 : Taken(segs, downloaded, q)
     /\ \A q \in r.begin .. r.end - 1 :
          ~Taken(segs, downloaded, q) /\ q - r.begin < MaxParallelSize
     /\ r.end = size \/ Taken(segs, downloaded, r.end) \/ r.end - r.begin >= MaxParallelSize}

\* The sum of the segments' needSpace.
NeedSpace(segs) == Cardinality(UNION {{s} \X s.todo : s \in segs})

createTaskPriv(r, b, size) ==
  [begin |-> r.begin, end |-> r.end, pos |-> r.begin, partial |-> FALSE,
   buf |-> b, todo |-> r.begin + 1 .. r.end - 1, clipped |-> size > 0]

\* The ranges launchNewSegment may ask for, of which it takes one: there is at
\* most one.
Ranges(segs, downloaded, w, size) ==
  IF size > 0 THEN NextDownload(segs, downloaded, w, size)
  ELSE {[begin |-> 0, end |-> MaxParallelSize]}

\* DECurlTask::launchNewSegment, as a function of what it reads and writes,
\* if libcurl does not call back.
Launched(segs, downloaded, free, w, size, getting) ==
  LET same   == [segs |-> segs, free |-> free, w |-> w, getting |-> getting]
      ranges == Ranges(segs, downloaded, w, size)
      r      == CHOOSE x \in ranges : TRUE
      b      == acquireBuffer(free)
  IN IF (size > 0 /\ w >= size) \/ Cardinality(segs) >= MaxParallelNum THEN same
     ELSE IF ranges = {} \/ ~isEnoughFreespace(free, NeedSpace(segs) + (r.end - r.begin))
       THEN [same EXCEPT !.getting = (size = 0)]
       ELSE [segs |-> segs \cup {createTaskPriv(r, b, size)}, free |-> free \ {b},
             w |-> r.end, getting |-> (size = 0)]

\* The server sends what there is of the range; the end of a transfer that has
\* ended has not been looked at.
Last(s)  == (IF s.end < NBlocks THEN s.end ELSE NBlocks) - 1
Ended(s) == s.pos > Last(s)

\* processHeaderScheme: after the end of the file, go round to its beginning.
WrapPosition(s, w, size) == IF EndsFile(s, size) THEN 0 ELSE w

\* The launch with the calls of libcurl in it: while the new segment has its
\* buffer and is not yet in the list, the end of another transfer may be found
\* and launch one more.  (One end inside a launch, and no error, is enough for
\* what is shown with EndsInside.)
Launches(segs, downloaded, free, w, size, getting) ==
  LET l        == Launched(segs, downloaded, free, w, size, getting)
      new      == l.segs \ segs
      inner(t) == Launched(segs \ {t}, downloaded, l.free, WrapPosition(t, w, size), size, getting)
  IN {l} \cup {[inner(t) EXCEPT !.segs = @ \cup new, !.w = l.w] :
                 t \in {t \in segs : EndsInside /\ new # {} /\ Ended(t)}}

-----------------------------------------------------------------------------
\* Create and prepare: the first segment is launched before the size is known.
Init ==
  /\ content = [b \in Buffers |-> Mixture]
  /\ mDownloadedSegments = <<>> /\ mReadCache = <<>>
  /\ LET l == Launched({}, <<>>, Buffers, 0, 0, TRUE)
     IN /\ mTaskPriv = l.segs /\ mFreeSegmentIndex = l.free
        /\ mCurrWritePosition = l.w /\ mIsGettingSize = l.getting
  /\ mTaskSize = 0 /\ mCurrReadPosition = 0
  /\ client = "creating" /\ error = FALSE
  /\ seeks = 0 /\ errors = 0

Launch(segs, downloaded, free, w, size) ==
  \E l \in Launches(segs, downloaded, free, w, size, mIsGettingSize) :
     /\ mTaskPriv' = l.segs /\ mFreeSegmentIndex' = l.free
     /\ mCurrWritePosition' = l.w /\ mIsGettingSize' = l.getting

\* httpHeaderCallback, before the first data of a transfer.
SizeAfterHeader == IF mIsGettingSize THEN NBlocks ELSE mTaskSize

Running == client # "failed"

\* processOutputData with data that does not complete a block.
Receive(s) ==
  /\ Running /\ ~s.partial /\ s.pos <= Last(s)
  /\ mTaskSize' = SizeAfterHeader
  /\ content' = Filled(content, s.buf, s.pos, FALSE)
  /\ mTaskPriv' = (mTaskPriv \ {s}) \cup {[s EXCEPT !.partial = TRUE]}
  /\ UNCHANGED <<mFreeSegmentIndex, mDownloadedSegments, mReadCache,
                 mCurrWritePosition, mIsGettingSize, clientVars>>

\* processOutputData with data that completes a block: it is downloaded, and
\* the segment takes a buffer if it is owed one.  (The operators named ..._mut
\* are the plausible mistakes the properties are tested against; the
\* specification does not use them.)
BufferAfter(s, free) == IF s.todo = {} THEN s.buf ELSE acquireBuffer(free)
FreeAfter_mut(s, free) == free
FreeAfter(s, free)     == IF s.todo = {} THEN free ELSE free \ {acquireBuffer(free)}
After(s, free) ==
  [s EXCEPT !.pos = s.pos + 1, !.partial = FALSE, !.buf = BufferAfter(s, free),
            !.todo = s.todo \ {s.pos + 1}]

WriteOut(s) ==
  /\ mTaskSize' = SizeAfterHeader
  /\ content' = Filled(content, s.buf, s.pos, s.partial)
  /\ mDownloadedSegments' = Written(mDownloadedSegments, s.pos, s.buf)

ReceiveBlock(s) ==
  /\ Running /\ s.pos < (IF EndsInside THEN Last(s) + 1 ELSE Last(s))
  /\ WriteOut(s)
  /\ mTaskPriv' = (mTaskPriv \ {s}) \cup {After(s, mFreeSegmentIndex)}
  /\ mFreeSegmentIndex' = FreeAfter(s, mFreeSegmentIndex)
  /\ UNCHANGED <<mReadCache, mCurrWritePosition, mIsGettingSize, clientVars>>

\* The last data of a segment (if it has not come before), and checkMultiInfo
\* with CURLE_OK: the segment leaves the list (with the buffer it may have taken
\* in vain), the source is told when the size has been asked for, and a new one
\* is launched.
SegmentDone(s) ==
  /\ Running /\ s.pos >= Last(s)
  /\ IF Ended(s) THEN UNCHANGED <<mTaskSize, content, mDownloadedSegments>> ELSE WriteOut(s)
  /\ client' = IF mIsGettingSize /\ client = "creating" THEN "created" ELSE client
  /\ Launch(mTaskPriv \ {s}, mDownloadedSegments',
            IF Ended(s) THEN mFreeSegmentIndex ELSE FreeAfter(s, mFreeSegmentIndex),
            WrapPosition(s, mCurrWritePosition, mTaskSize'), mTaskSize')
  /\ UNCHANGED <<mReadCache, mCurrReadPosition, error, seeks, errors>>

\* checkMultiInfo with an error: handleError goes back to where the segment's
\* data stopped and tells the source, except of a 503 or a refused connection;
\* the buffer is given back.  The timer will launch the segment again.
RetryPosition_mut(s) == mCurrWritePosition
RetryPosition(s)     == IF mCurrWritePosition > s.pos THEN s.pos ELSE mCurrWritePosition

SegmentFails(s, silent) ==
  /\ Running /\ ~Ended(s) /\ errors < MaxErrors
  /\ errors' = errors + 1
  /\ mCurrWritePosition' = RetryPosition(s)
  /\ mFreeSegmentIndex' = mFreeSegmentIndex \cup {s.buf}
  /\ mTaskPriv' = mTaskPriv \ {s}
  /\ error' = (error \/ ~silent)
  /\ client' = IF ~silent /\ client = "creating" THEN "failed" ELSE client
  /\ UNCHANGED <<mDownloadedSegments, mReadCache, content, mTaskSize, mIsGettingSize,
                 mCurrReadPosition, seeks>>

\* TaskObserverTimer, once the source has started the task.
IsOpen == client \in {"open", "seeking"}

Timer ==
  /\ IsOpen
  /\ MaxParallelNum > 1
  /\ \E l \in Launches(mTaskPriv, mDownloadedSegments, mFreeSegmentIndex,
                       mCurrWritePosition, mTaskSize, mIsGettingSize) :
     \E k \in Launches(l.segs, mDownloadedSegments, l.free, l.w, mTaskSize, l.getting) :
        /\ mTaskPriv' = k.segs /\ mFreeSegmentIndex' = k.free
        /\ mCurrWritePosition' = k.w /\ mIsGettingSize' = k.getting
  /\ UNCHANGED <<mDownloadedSegments, mReadCache, content, mTaskSize, clientVars>>

-----------------------------------------------------------------------------
(***************************************************************************)
(* The data source, on the extractor's thread.                             *)
(***************************************************************************)

\* initCheck: the task exists, and is started; or nothing came for 15 seconds.
Open ==
  /\ client = "created"
  /\ client' = IF error THEN "failed" ELSE "open"
  /\ UNCHANGED <<bufferVars, mTaskPriv, mCurrWritePosition, mTaskSize, mIsGettingSize,
                 mCurrReadPosition, error, seeks, errors>>

OpenTimesOut ==
  /\ client = "creating"
  /\ client' = "failed"
  /\ UNCHANGED <<bufferVars, mTaskPriv, mCurrWritePosition, mTaskSize, mIsGettingSize,
                 mCurrReadPosition, error, seeks, errors>>

\* BeastReadPacket's read command, when it finds data: all of the block is
\* read, or a part of it.
Read ==
  /\ client = "open" /\ ~error
  /\ mCurrReadPosition < mTaskSize
  /\ isPositionCached(mDownloadedSegments, mCurrReadPosition)
  /\ mReadCache' = Accessed(mReadCache, mCurrReadPosition)
  /\ mFreeSegmentIndex' = FreeAfterRead(mFreeSegmentIndex, mDownloadedSegments,
                                        mReadCache, mCurrReadPosition)
  /\ mDownloadedSegments' = DownloadedAfterRead(mDownloadedSegments, mReadCache, mCurrReadPosition)
  /\ mCurrReadPosition' \in {mCurrReadPosition, mCurrReadPosition + 1}
  /\ UNCHANGED <<content, mTaskPriv, mCurrWritePosition, mTaskSize, mIsGettingSize,
                 client, error, seeks, errors>>

\* BeastSeek clears the error on the thread of the reader, and posts the seek
\* command, unless it is only asked for the size (AVSEEK_SIZE).
BeastSeek ==
  /\ client = "open" /\ error' = FALSE
  /\ \/ UNCHANGED <<client, seeks>>
     \/ seeks < MaxSeeks /\ client' = "seeking" /\ seeks' = seeks + 1
  /\ UNCHANGED <<bufferVars, mTaskPriv, mCurrWritePosition, mTaskSize, mIsGettingSize,
                 mCurrReadPosition, errors>>

\* DEBaseTask::seek, the command: a position that is not here makes an end of
\* what was not read and of all segments.
Seek(k) ==
  /\ client = "seeking" /\ client' = "open"
  /\ mCurrReadPosition' = k
  /\ LET block == IF k = NBlocks /\ ~Aligned THEN NBlocks - 1 ELSE k
     IN IF isPositionCached(mDownloadedSegments, block)
          THEN UNCHANGED <<bufferVars, mTaskPriv, mCurrWritePosition, mIsGettingSize>>
          ELSE /\ mDownloadedSegments' = DownloadedAfterPurge(mDownloadedSegments, mReadCache)
               /\ Launch({}, mDownloadedSegments',
                         FreeAfterPurge(mFreeSegmentIndex, mDownloadedSegments, mReadCache)
                           \cup {s.buf : s \in mTaskPriv},
                         block, mTaskSize)
               /\ UNCHANGED <<mReadCache, content>>
  /\ UNCHANGED <<mTaskSize, error, seeks, errors>>

Next ==
  \/ \E s \in mTaskPriv : Receive(s) \/ ReceiveBlock(s) \/ SegmentDone(s)
  \/ \E s \in mTaskPriv, silent \in BOOLEAN : SegmentFails(s, silent)
  \/ Timer
  \/ Open \/ OpenTimesOut \/ Read \/ BeastSeek
  \/ \E k \in 0 .. NBlocks : Seek(k)

Spec == Init /\ [][Next]_vars

\* Transfers that do not fail go on, the timer comes every second.  The source
\* owes nothing: it may stop reading.
Progress(b) == \E s \in mTaskPriv : s.begin = b /\ (Receive(s) \/ ReceiveBlock(s) \/ SegmentDone(s))
FairSpec == Spec /\ WF_vars(Timer) /\ \A b \in Blocks : WF_vars(Progress(b))

-----------------------------------------------------------------------------
(***************************************************************************)
(* Properties, for a file that does not end with a full block and, but for *)
(* the last one, a libcurl that finds no end inside another call.          *)
(***************************************************************************)

Segment ==
  [begin : 0 .. NBlocks, end : Nat, pos : 0 .. NBlocks, partial : BOOLEAN,
   buf : Buffers, todo : SUBSET Nat, clipped : BOOLEAN]

TypeOK ==
  /\ mFreeSegmentIndex \subseteq Buffers
  /\ DOMAIN mDownloadedSegments \subseteq Blocks
  /\ \A k \in DOMAIN mDownloadedSegments : mDownloadedSegments[k] \in Buffers
  /\ DOMAIN mReadCache \subseteq Blocks
  /\ content \in [Buffers -> Blocks \cup {Mixture}]
  /\ mTaskPriv \subseteq Segment
  /\ mCurrWritePosition \in Nat /\ mCurrReadPosition \in 0 .. NBlocks
  /\ mTaskSize \in {0, NBlocks} /\ mIsGettingSize \in BOOLEAN
  /\ client \in {"creating", "created", "open", "seeking", "failed"} /\ error \in BOOLEAN
  /\ seeks \in 0 .. MaxSeeks /\ errors \in 0 .. MaxErrors

\* Every buffer is free, or the place of one downloaded block, or the one a
\* segment is filling, and never two of these, through evictions, purges,
\* failures and restarts.  None is lost, if the file is not shorter than a
\* segment.  The first segment of a shorter file is asked for before the size is
\* known, and is owed buffers for blocks there are not: it takes one after the
\* last block (DEBaseTask.cpp:277-280), which checkMultiInfo does not give back
\* (DENetwork.cpp:168-197).  It is never more than that one.
NoSharedBuffer ==
  /\ \A k \in DOMAIN mDownloadedSegments : mDownloadedSegments[k] \notin mFreeSegmentIndex
  /\ \A k, j \in DOMAIN mDownloadedSegments :
       mDownloadedSegments[k] = mDownloadedSegments[j] => k = j
  /\ \A s \in mTaskPriv :
       /\ s.buf \notin mFreeSegmentIndex
       /\ \A k \in DOMAIN mDownloadedSegments : mDownloadedSegments[k] # s.buf
       /\ \A t \in mTaskPriv : t.buf = s.buf => t = s

Lost ==
  Buffers \ (mFreeSegmentIndex \cup {mDownloadedSegments[k] : k \in DOMAIN mDownloadedSegments}
                                \cup {s.buf : s \in mTaskPriv})
MayBeLost == IF MaxParallelSize <= NBlocks THEN 0 ELSE 1

BuffersPartitioned == NoSharedBuffer /\ Cardinality(Lost) <= MayBeLost

\* What the source reads as block k is block k.
BlocksIntact ==
  \A k \in DOMAIN mDownloadedSegments : content[mDownloadedSegments[k]] = k

\* The task keeps what a cache of blocks promises its reader: to the source the
\* segments, their failures and the buffers that go round are blocks that come
\* whole and stay, with their data, until it is their turn to go.
Data  == [k \in DOMAIN mDownloadedSegments |-> content[mDownloadedSegments[k]]]
Newer ==
  {p \in (DOMAIN mReadCache) \X (DOMAIN mReadCache) : mReadCache[p[1]] < mReadCache[p[2]]}
Cache == INSTANCE BlockCache WITH
  Capacity <- Cardinality(Buffers), open <- IsOpen, at <- mCurrReadPosition,
  here <- Data, recent <- DOMAIN mReadCache, newer <- Newer
ImplementsCache == Cache!Spec

\* A segment that was launched gets its buffers.
BuffersSuffice == Cardinality(mFreeSegmentIndex) >= NeedSpace(mTaskPriv)

\* A source that waits for a block that is under way or still to be looked for
\* gets it, or an error, or gives up, if there is room for one more segment
\* again and again.  (A seek to a block that is here does not take
\* mCurrWritePosition back: what was evicted before it is not looked for again,
\* and what was not read before it may fill all buffers.  In both cases the
\* source waits for ever.)
Waits(k)  == client = "open" /\ ~error /\ mCurrReadPosition = k
LookedFor(k) ==
  \/ mCurrWritePosition <= k
  \/ isProcessingPosition(mTaskPriv, k)
  \/ \E s \in mTaskPriv : EndsFile(s, mTaskSize)
Room == Cardinality(mFreeSegmentIndex) >= NeedSpace(mTaskPriv) + MaxParallelSize
ReaderServed ==
  []<>Room =>
    \A k \in Blocks :
      Waits(k) /\ LookedFor(k) ~> (~Waits(k) \/ k \in DOMAIN mDownloadedSegments)

\* "never gone be here": no empty range is asked for.
NoEmptySegment == \A s \in mTaskPriv : s.begin < s.end

\* "acquireBuffer never be here": no segment is without a buffer for the data
\* it receives (DEMemDataManager.cpp:113).
NeverWithoutBuffer == \A s \in mTaskPriv : s.buf # NoBuffer

=============================================================================
