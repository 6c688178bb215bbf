---------------------------- MODULE DETask_proofs ----------------------------
(***************************************************************************)
(* Proofs about DETask for a file that does not end with a full block, and *)
(* a libcurl that finds no end of a transfer inside another call: the      *)
(* buffers stay partitioned between the free ones, the downloaded blocks   *)
(* and the segments, but for the one a file shorter than a segment costs;  *)
(* every block that is here is intact, and a segment that was launched     *)
(* finds its buffers.                                                      *)
(*                                                                         *)
(* The invariant is a predicate of the segments, the downloaded blocks,    *)
(* the free buffers and their contents, so that a step made of two parts   *)
(* (a segment ends, another one is launched) is proved part by part.       *)
(***************************************************************************)
EXTENDS DETask, FiniteSetTheorems, TLAPS

\* The blocks the segments still need a buffer for.
Wanted(segs) == UNION {s.todo : s \in segs}

\* A segment waits for the buffers of the blocks after the one it receives.
\* Only the first one, which was asked for before the size was known, may go
\* beyond the end of the file.
Shaped(s) ==
  /\ s \in Segment
  /\ s.begin <= s.pos /\ s.pos < s.end /\ s.pos < NBlocks
  /\ s.todo = s.pos + 1 .. s.end - 1
  /\ s.end <= NBlocks + MaxParallelSize
  /\ s.end > NBlocks => s.begin = 0 /\ MaxParallelSize > NBlocks

Apart(segs) == \A s, t \in segs : s # t => s.end <= t.begin \/ t.end <= s.begin

Stored(downloaded, free) ==
  /\ free \subseteq Buffers
  /\ DOMAIN downloaded \subseteq Blocks
  /\ \A k \in DOMAIN downloaded : downloaded[k] \in Buffers \ free
  /\ \A k, j \in DOMAIN downloaded : downloaded[k] = downloaded[j] => k = j

Held(segs, downloaded, free) ==
  \A s \in segs :
    /\ s.buf \notin free
    /\ \A k \in DOMAIN downloaded : downloaded[k] # s.buf
    /\ \A t \in segs : t.buf = s.buf => t = s

\* No buffer but x is lost, and x only (if it is one) by a file that is shorter
\* than a segment, when the first segment is over.
KeptBut(segs, downloaded, free, x) ==
  \A b \in Buffers \ {x} :
    \/ b \in free
    \/ \E k \in DOMAIN downloaded : downloaded[k] = b
    \/ \E s \in segs : s.buf = b

MayLose(segs, x) ==
  x # NoBuffer => MaxParallelSize > NBlocks /\ \A s \in segs : s.end <= NBlocks

Kept(segs, downloaded, free) ==
  \E x \in Buffers \cup {NoBuffer} : MayLose(segs, x) /\ KeptBut(segs, downloaded, free, x)

Fresh(segs, downloaded) ==
  \A s \in segs : \A k \in s.pos .. s.end - 1 : k \notin DOMAIN downloaded

Enough(segs, free) == Cardinality(free) >= Cardinality(Wanted(segs))

Intact(segs, downloaded, contents) ==
  /\ contents \in [Buffers -> Blocks \cup {Mixture}]
  /\ \A k \in DOMAIN downloaded : contents[downloaded[k]] = k
  /\ \A s \in segs : s.partial => contents[s.buf] = s.pos

Good(segs, downloaded, free, contents) ==
  /\ \A s \in segs : Shaped(s)
  /\ Apart(segs)
  /\ Stored(downloaded, free)
  /\ Held(segs, downloaded, free)
  /\ Kept(segs, downloaded, free)
  /\ Fresh(segs, downloaded)
  /\ Enough(segs, free)
  /\ Intact(segs, downloaded, contents)

-----------------------------------------------------------------------------
(***************************************************************************)
(* Counting buffers.                                                       *)
(***************************************************************************)

\* What the segments want is a finite set of blocks.
LEMMA WantedFinite ==
  ASSUME NEW segs, \A s \in segs : Shaped(s)
  PROVE  IsFiniteSet(Wanted(segs)) /\ Cardinality(Wanted(segs)) \in Nat
<1>. DEFINE n == NBlocks + MaxParallelSize
<1>1. n \in Nat
  BY TaskAssumption
<1>2. ASSUME NEW k \in Wanted(segs)
      PROVE  k \in Nat /\ k <= n
  <2>1. PICK s \in segs : k \in s.todo
    BY <1>2 DEF Wanted
  <2>2. Shaped(s)
    OBVIOUS
  <2>3. s.pos \in Nat /\ s.end \in Nat /\ s.end <= n /\ s.todo = s.pos + 1 .. s.end - 1
    BY <2>2, TaskAssumption DEF Shaped, Segment
  <2>. QED BY <2>1, <2>3, <1>1
<1>3. IsFiniteSet(Wanted(segs))
  BY <1>1, <1>2, FS_BoundedSetOfNaturals, Zenon
<1>. QED BY <1>3, FS_CardinalityType

\* Two segments do not wait for a buffer for the same block.
LEMMA WantedApart ==
  ASSUME NEW segs, \A s \in segs : Shaped(s), Apart(segs),
         NEW s \in segs, NEW t \in segs, NEW k \in s.todo, k \in t.todo
  PROVE  s = t
<1>. SUFFICES ASSUME s # t PROVE FALSE
  OBVIOUS
<1>1. /\ s.begin \in Nat /\ s.end \in Nat /\ s.pos \in Nat /\ s.begin <= s.pos
      /\ s.todo = s.pos + 1 .. s.end - 1
      /\ t.begin \in Nat /\ t.end \in Nat /\ t.pos \in Nat /\ t.begin <= t.pos
      /\ t.todo = t.pos + 1 .. t.end - 1
  BY TaskAssumption DEF Shaped, Segment
<1>2. s.end <= t.begin \/ t.end <= s.begin
  BY DEF Apart
<1>. QED BY <1>1, <1>2

\* The sum of their needSpace is the number of those blocks.
LEMMA NeedIsWanted ==
  ASSUME NEW segs, \A s \in segs : Shaped(s), Apart(segs)
  PROVE  NeedSpace(segs) = Cardinality(Wanted(segs))
<1>. DEFINE needs == UNION {{s} \X s.todo : s \in segs}
            owner(k) == CHOOSE s \in segs : k \in s.todo
            g == [k \in Wanted(segs) |-> <<owner(k), k>>]
<1>1. ASSUME NEW k \in Wanted(segs) PROVE owner(k) \in segs /\ k \in owner(k).todo
  BY DEF Wanted
<1>2. g \in [Wanted(segs) -> needs]
  <2>1. ASSUME NEW k \in Wanted(segs) PROVE <<owner(k), k>> \in needs
    <3>. HIDE DEF owner
    <3>1. owner(k) \in segs /\ k \in owner(k).todo
      BY <1>1
    <3>2. <<owner(k), k>> \in {owner(k)} \X owner(k).todo
      BY <3>1
    <3>. QED BY <3>1, <3>2
  <2>. HIDE DEF needs, owner
  <2>. QED BY <2>1
<1>3. ASSUME NEW p \in needs PROVE \E k \in Wanted(segs) : g[k] = p
  <2>1. PICK s \in segs : p \in {s} \X s.todo
    BY <1>3
  <2>2. PICK k \in s.todo : p = <<s, k>>
    BY <2>1
  <2>3. k \in Wanted(segs)
    BY DEF Wanted
  <2>4. owner(k) = s
    <3>1. owner(k) \in segs /\ k \in owner(k).todo
      BY <1>1, <2>3
    <3>. HIDE DEF owner
    <3>. QED BY <3>1, WantedApart
  <2>. QED BY <2>2, <2>3, <2>4
<1>4. g \in Surjection(Wanted(segs), needs)
  BY <1>2, <1>3 DEF Surjection
<1>5. g \in Injection(Wanted(segs), needs)
  <2>1. ASSUME NEW i \in Wanted(segs), NEW j \in Wanted(segs), g[i] = g[j] PROVE i = j
    <3>1. g[i] = <<owner(i), i>> /\ g[j] = <<owner(j), j>>
      OBVIOUS
    <3>2. <<owner(i), i>> = <<owner(j), j>>
      BY <2>1, <3>1
    <3>3. \A a, b, c, d : <<a, b>> = <<c, d>> => b = d
      OBVIOUS
    <3>. HIDE DEF g, owner
    <3>. QED BY <3>2, <3>3
  <2>. HIDE DEF g, needs
  <2>. QED BY <1>2, <2>1 DEF Injection, IsInjective
<1>. HIDE DEF g, needs
<1>6. Cardinality(needs) = Cardinality(Wanted(segs))
  BY <1>4, <1>5, WantedFinite, FS_Surjection
<1>. QED BY <1>6 DEF NeedSpace, needs

\* A set of buffers is finite.
LEMMA BuffersFinite ==
  ASSUME NEW free, free \subseteq Buffers
  PROVE  IsFiniteSet(free) /\ Cardinality(free) \in Nat
BY FS_Subset, FS_CardinalityType, BuffersAssumption

\* Fewer wants and as many buffers.
LEMMA EnoughAgain ==
  ASSUME NEW segs, NEW free, NEW segs2, NEW free2,
         \A s \in segs : Shaped(s), Enough(segs, free),
         free \subseteq free2, free2 \subseteq Buffers,
         Wanted(segs2) \subseteq Wanted(segs)
  PROVE  Enough(segs2, free2)
<1>1. Cardinality(Wanted(segs2)) <= Cardinality(Wanted(segs)) /\ Cardinality(Wanted(segs2)) \in Nat
  BY WantedFinite, FS_Subset, FS_CardinalityType
<1>2. Cardinality(free) <= Cardinality(free2) /\ Cardinality(free) \in Nat
  BY BuffersFinite, FS_Subset
<1>3. Cardinality(free2) \in Nat /\ Cardinality(Wanted(segs)) \in Nat
  BY BuffersFinite, WantedFinite
<1>. QED BY <1>1, <1>2, <1>3 DEF Enough

\* One want and one buffer fewer.
LEMMA EnoughWithoutOne ==
  ASSUME NEW segs, NEW free, NEW segs2, NEW b \in free, NEW k \in Wanted(segs),
         \A s \in segs : Shaped(s), Enough(segs, free), free \subseteq Buffers,
         Wanted(segs2) \subseteq Wanted(segs) \ {k}
  PROVE  Enough(segs2, free \ {b})
<1>1. /\ IsFiniteSet(Wanted(segs) \ {k})
      /\ Cardinality(Wanted(segs) \ {k}) = Cardinality(Wanted(segs)) - 1
      /\ Cardinality(Wanted(segs)) \in Nat
  BY WantedFinite, FS_RemoveElement
<1>2. Cardinality(Wanted(segs2)) <= Cardinality(Wanted(segs) \ {k})
  BY <1>1, FS_Subset
<1>3. Cardinality(free \ {b}) = Cardinality(free) - 1 /\ Cardinality(free) \in Nat
  BY BuffersFinite, FS_RemoveElement
<1>4. Cardinality(Wanted(segs2)) \in Nat
  BY <1>1, FS_Subset, FS_CardinalityType
<1>. QED BY <1>1, <1>2, <1>3, <1>4 DEF Enough

\* A segment that wants a buffer finds one.
LEMMA BufferThere ==
  ASSUME NEW segs, NEW free, NEW s \in segs, s.todo # {},
         \A t \in segs : Shaped(t), Enough(segs, free), free \subseteq Buffers
  PROVE  acquireBuffer(free) \in free
<1>1. PICK k : k \in Wanted(segs)
  BY DEF Wanted
<1>2. Cardinality(Wanted(segs)) # 0 /\ Cardinality(Wanted(segs)) \in Nat
  BY <1>1, WantedFinite, FS_EmptySet
<1>3. Cardinality(free) # 0
  BY <1>2, BuffersFinite DEF Enough
<1>4. free # {}
  BY <1>3, FS_EmptySet
<1>. QED BY <1>4 DEF acquireBuffer

-----------------------------------------------------------------------------
(***************************************************************************)
(* Launching a segment.                                                    *)
(***************************************************************************)

\* A range worth launching, and the segment made of it.
Wanting(segs, downloaded, r) ==
  /\ r.begin \in Nat /\ r.end \in Nat /\ r.begin < r.end
  /\ r.end <= NBlocks /\ r.end - r.begin <= MaxParallelSize
  /\ \A q \in r.begin .. r.end - 1 : ~Taken(segs, downloaded, q)

LaunchedOne(segs, downloaded, free, l) ==
  \E r \in [begin : Nat, end : Nat] :
    /\ Wanting(segs, downloaded, r)
    /\ isEnoughFreespace(free, NeedSpace(segs) + (r.end - r.begin))
    /\ l.segs = segs \cup {createTaskPriv(r, acquireBuffer(free), NBlocks)}
    /\ l.free = free \ {acquireBuffer(free)}

LaunchedNone(segs, free, l) == l.segs = segs /\ l.free = free

\* queryNextDownload finds no empty range in a file that does not end with a
\* full block.
LEMMA NextDownloadWanting ==
  ASSUME ~Aligned, NEW segs, NEW downloaded, NEW w \in Nat,
         NEW r \in NextDownload(segs, downloaded, w, NBlocks)
  PROVE  r \in [begin : Nat, end : Nat] /\ Wanting(segs, downloaded, r)
<1>1. r.begin \in Nat /\ r.end \in Nat /\ r \in [begin : Nat, end : Nat] /\ r.end <= NBlocks
  BY TaskAssumption DEF NextDownload
<1>2. /\ r.begin <= r.end /\ r.begin # NBlocks /\ ~Taken(segs, downloaded, r.begin)
      /\ r.end = NBlocks \/ Taken(segs, downloaded, r.end) \/ r.end - r.begin >= MaxParallelSize
      /\ \A q \in r.begin .. r.end - 1 :
           ~Taken(segs, downloaded, q) /\ q - r.begin < MaxParallelSize
  BY DEF NextDownload
<1>3. r.begin < r.end
  <2>. SUFFICES ASSUME r.end = r.begin PROVE FALSE
    BY <1>1, <1>2
  <2>1. ~(r.end - r.begin >= MaxParallelSize)
    BY <1>1, TaskAssumption
  <2>. QED BY <2>1, <1>2
<1>4. r.end - 1 \in r.begin .. r.end - 1
  BY <1>1, <1>3
<1>5. r.end - r.begin <= MaxParallelSize
  BY <1>1, <1>2, <1>4, TaskAssumption
<1>. QED BY <1>1, <1>2, <1>3, <1>5 DEF Wanting

LEMMA LaunchedCases ==
  ASSUME ~Aligned, NEW segs, NEW downloaded, NEW free, NEW w \in Nat, NEW getting \in BOOLEAN,
         NEW l, l = Launched(segs, downloaded, free, w, NBlocks, getting)
  PROVE  /\ LaunchedNone(segs, free, l) \/ LaunchedOne(segs, downloaded, free, l)
         /\ l.w \in Nat /\ l.getting \in BOOLEAN
<1>. DEFINE ranges == NextDownload(segs, downloaded, w, NBlocks)
            r      == CHOOSE x \in ranges : TRUE
            b      == acquireBuffer(free)
            same   == [segs |-> segs, free |-> free, w |-> w, getting |-> getting]
            room   == isEnoughFreespace(free, NeedSpace(segs) + (r.end - r.begin))
<1>1. NBlocks > 0 /\ NBlocks # 0
  BY TaskAssumption
<1>r. Ranges(segs, downloaded, w, NBlocks) = ranges
  BY <1>1 DEF Ranges
<1>2. CASE w >= NBlocks \/ Cardinality(segs) >= MaxParallelNum
  <2>1. l = same
    BY <1>1, <1>2, <1>r DEF Launched
  <2>. QED BY <2>1 DEF LaunchedNone
<1>3. CASE ~(w >= NBlocks \/ Cardinality(segs) >= MaxParallelNum) /\ (ranges = {} \/ ~room)
  <2>1. l = [same EXCEPT !.getting = (NBlocks = 0)]
    BY <1>1, <1>3, <1>r DEF Launched
  <2>2. l.segs = segs /\ l.free = free /\ l.w = w
    BY <2>1
  <2>3. l.getting = (NBlocks = 0)
    BY <2>1
  <2>. QED BY <2>2, <2>3, <1>1 DEF LaunchedNone
<1>4. CASE ~(w >= NBlocks \/ Cardinality(segs) >= MaxParallelNum) /\ ranges # {} /\ room
  <2>1. l = [segs |-> segs \cup {createTaskPriv(r, b, NBlocks)}, free |-> free \ {b},
             w |-> r.end, getting |-> (NBlocks = 0)]
    BY <1>1, <1>4, <1>r DEF Launched
  <2>2. r \in ranges
    BY <1>4
  <2>3. r \in [begin : Nat, end : Nat] /\ Wanting(segs, downloaded, r)
    BY <2>2, NextDownloadWanting
  <2>. HIDE DEF r, b
  <2>4. /\ l.segs = segs \cup {createTaskPriv(r, b, NBlocks)} /\ l.free = free \ {b}
        /\ l.w = r.end
    BY <2>1
  <2>5. l.getting = (NBlocks = 0)
    BY <2>1
  <2>6. LaunchedOne(segs, downloaded, free, l)
    BY <2>3, <2>4, <1>4 DEF LaunchedOne, b
  <2>7. r.end \in Nat
    BY <2>3
  <2>. QED BY <2>4, <2>5, <2>6, <2>7
<1>. QED BY <1>2, <1>3, <1>4

\* The new segment.
LEMMA NewSegment ==
  ASSUME NEW r \in [begin : Nat, end : Nat], NEW b \in Buffers,
         r.begin < r.end, r.end <= NBlocks + MaxParallelSize,
         r.begin < NBlocks, r.end > NBlocks => r.begin = 0 /\ MaxParallelSize > NBlocks,
         NEW size \in Nat, NEW s, s = createTaskPriv(r, b, size)
  PROVE  /\ Shaped(s) /\ s.buf = b /\ ~s.partial
         /\ s.begin = r.begin /\ s.end = r.end /\ s.pos = r.begin
<1>1. s = [begin |-> r.begin, end |-> r.end, pos |-> r.begin, partial |-> FALSE,
           buf |-> b, todo |-> r.begin + 1 .. r.end - 1, clipped |-> (size > 0)]
  BY DEF createTaskPriv
<1>2. r.begin \in 0 .. NBlocks /\ r.end \in Nat /\ (size > 0) \in BOOLEAN
  BY TaskAssumption
<1>3. r.begin + 1 .. r.end - 1 \in SUBSET Nat
  <2>1. r.begin \in Nat /\ r.end \in Nat
    OBVIOUS
  <2>. QED BY <2>1
<1>4. s \in Segment
  BY <1>1, <1>2, <1>3 DEF Segment
<1>5. /\ s.begin = r.begin /\ s.end = r.end /\ s.pos = r.begin /\ s.partial = FALSE
      /\ s.buf = b /\ s.todo = r.begin + 1 .. r.end - 1
  BY <1>1
<1>. QED BY <1>2, <1>4, <1>5 DEF Shaped

\* With it everything stays good.
LEMMA AddedGood ==
  ASSUME NEW segs, NEW downloaded, NEW free, NEW contents,
         Good(segs, downloaded, free, contents),
         NEW r \in [begin : Nat, end : Nat], NEW s, NEW size \in Nat,
         r.begin < r.end, r.end <= NBlocks + MaxParallelSize,
         r.begin < NBlocks,
         r.end > NBlocks => r.begin = 0 /\ MaxParallelSize > NBlocks /\ free = Buffers,
         \A q \in r.begin .. r.end - 1 : ~Taken(segs, downloaded, q),
         isEnoughFreespace(free, NeedSpace(segs) + (r.end - r.begin)),
         s = createTaskPriv(r, acquireBuffer(free), size)
  PROVE  Good(segs \cup {s}, downloaded, free \ {acquireBuffer(free)}, contents)
<1>. DEFINE b == acquireBuffer(free)
            segs2 == segs \cup {s}
            free2 == free \ {b}
<1>a. /\ \A t \in segs : Shaped(t)
      /\ Apart(segs)
      /\ Stored(downloaded, free) /\ free \subseteq Buffers
      /\ Held(segs, downloaded, free)
      /\ Kept(segs, downloaded, free)
      /\ Fresh(segs, downloaded)
      /\ Intact(segs, downloaded, contents)
  BY DEF Good, Stored
<1>b. r.begin \in Nat /\ r.end \in Nat
  OBVIOUS
<1>1. NeedSpace(segs) = Cardinality(Wanted(segs))
  BY <1>a, NeedIsWanted
<1>2. Cardinality(Wanted(segs)) \in Nat /\ IsFiniteSet(Wanted(segs))
  BY <1>a, WantedFinite
<1>3. Cardinality(free) \in Nat /\ IsFiniteSet(free)
  BY <1>a, BuffersFinite
<1>4. Cardinality(free) >= Cardinality(Wanted(segs)) + (r.end - r.begin)
  BY <1>1 DEF isEnoughFreespace
<1>5. b \in free
  <2>1. Cardinality(free) # 0
    BY <1>b, <1>2, <1>3, <1>4
  <2>2. free # {}
    BY <2>1, FS_EmptySet
  <2>. QED BY <2>2 DEF acquireBuffer
<1>6. /\ Shaped(s) /\ s.buf = b /\ ~s.partial
      /\ s.begin = r.begin /\ s.end = r.end /\ s.pos = r.begin
  BY <1>a, <1>5, NewSegment
<1>. HIDE DEF b
<1>7. \A t \in segs2 : Shaped(t)
  BY <1>a, <1>6
<1>8. Apart(segs2)
  <2>1. ASSUME NEW t \in segs PROVE t.end <= s.begin \/ s.end <= t.begin
    <3>1. t.begin \in Nat /\ t.end \in Nat /\ t.begin < t.end
      BY <1>a, TaskAssumption DEF Shaped, Segment
    <3>2. \A q \in r.begin .. r.end - 1 : ~(t.begin <= q /\ q < t.end)
      BY DEF Taken, isProcessingPosition
    <3>3. ASSUME t.end > r.begin, r.end > t.begin PROVE FALSE
      <4>1. CASE t.begin <= r.begin
        BY <4>1, <3>1, <3>2, <3>3, <1>b
      <4>2. CASE r.begin < t.begin
        <5>1. t.begin \in r.begin .. r.end - 1
          BY <4>2, <3>1, <3>3, <1>b
        <5>. QED BY <5>1, <3>1, <3>2
      <4>. QED BY <4>1, <4>2, <3>1, <1>b
    <3>. QED BY <3>1, <3>3, <1>b, <1>6
  <2>. QED BY <2>1, <1>a DEF Apart
<1>9. Stored(downloaded, free2)
  BY <1>a DEF Stored
<1>10. Held(segs2, downloaded, free2)
  <2>1. ASSUME NEW k \in DOMAIN downloaded PROVE downloaded[k] # s.buf
    BY <1>a, <1>5, <1>6 DEF Stored
  <2>2. ASSUME NEW t \in segs PROVE t.buf # s.buf
    BY <1>a, <1>5, <1>6 DEF Held
  <2>. QED BY <2>1, <2>2, <1>a, <1>6 DEF Held
<1>11. Kept(segs2, downloaded, free2)
  <2>1. CASE r.end <= NBlocks
    <3>1. PICK x \in Buffers \cup {NoBuffer} :
            MayLose(segs, x) /\ KeptBut(segs, downloaded, free, x)
      BY <1>a DEF Kept
    <3>2. MayLose(segs2, x) /\ KeptBut(segs2, downloaded, free2, x)
      BY <3>1, <2>1, <1>6 DEF MayLose, KeptBut
    <3>. QED BY <3>2 DEF Kept
  <2>2. CASE free = Buffers
    <3>1. MayLose(segs2, NoBuffer) /\ KeptBut(segs2, downloaded, free2, NoBuffer)
      BY <2>2, <1>6 DEF MayLose, KeptBut
    <3>. QED BY <3>1 DEF Kept
  <2>. QED BY <2>1, <2>2, <1>b, TaskAssumption
<1>12. Fresh(segs2, downloaded)
  BY <1>a, <1>6 DEF Fresh, Taken, isPositionCached
<1>13. Enough(segs2, free2)
  <2>1. Wanted(segs2) = Wanted(segs) \cup s.todo
    BY DEF Wanted
  <2>2. s.todo = r.begin + 1 .. r.end - 1
    BY <1>6 DEF Shaped
  <2>3. IsFiniteSet(s.todo) /\ Cardinality(s.todo) = r.end - r.begin - 1
    <3>1. IsFiniteSet(r.begin + 1 .. r.end - 1) /\
          Cardinality(r.begin + 1 .. r.end - 1) =
             IF r.begin + 1 > r.end - 1 THEN 0 ELSE (r.end - 1) - (r.begin + 1) + 1
      <4>1. r.begin + 1 \in Int /\ r.end - 1 \in Int
        BY <1>b
      <4>. QED BY <4>1, FS_Interval, Zenon
    <3>. QED BY <3>1, <2>2, <1>b
  <2>4. /\ Cardinality(Wanted(segs2)) =
             Cardinality(Wanted(segs)) + Cardinality(s.todo) - Cardinality(Wanted(segs) \cap s.todo)
        /\ Cardinality(Wanted(segs) \cap s.todo) \in Nat
    BY <1>2, <2>1, <2>3, FS_Union, FS_Intersection, FS_CardinalityType
  <2>5. Cardinality(free2) = Cardinality(free) - 1
    BY <1>3, <1>5, FS_RemoveElement
  <2>. QED BY <1>2, <1>3, <1>4, <1>b, <2>3, <2>4, <2>5 DEF Enough
<1>14. Intact(segs2, downloaded, contents)
  BY <1>a, <1>6 DEF Intact
<1>. QED BY <1>7, <1>8, <1>9, <1>10, <1>11, <1>12, <1>13, <1>14 DEF Good, b

\* Whatever launchNewSegment does.  If no end of a transfer is found inside, it
\* does only one thing.
LEMMA LaunchesOne ==
  ASSUME ~EndsInside, NEW segs, NEW downloaded, NEW free, NEW w, NEW size, NEW getting
  PROVE  Launches(segs, downloaded, free, w, size, getting)
           = {Launched(segs, downloaded, free, w, size, getting)}
BY DEF Launches

LEMMA LaunchGood ==
  ASSUME ~Aligned, NEW segs, NEW downloaded, NEW free, NEW contents,
         Good(segs, downloaded, free, contents),
         NEW w \in Nat, NEW getting \in BOOLEAN,
         NEW l, l = Launched(segs, downloaded, free, w, NBlocks, getting)
  PROVE  Good(l.segs, downloaded, l.free, contents) /\ l.w \in Nat /\ l.getting \in BOOLEAN
<1>1. /\ LaunchedNone(segs, free, l) \/ LaunchedOne(segs, downloaded, free, l)
      /\ l.w \in Nat /\ l.getting \in BOOLEAN
  BY LaunchedCases
<1>2. CASE LaunchedNone(segs, free, l)
  BY <1>1, <1>2 DEF LaunchedNone
<1>3. CASE LaunchedOne(segs, downloaded, free, l)
  <2>1. PICK r \in [begin : Nat, end : Nat] :
          /\ Wanting(segs, downloaded, r)
          /\ isEnoughFreespace(free, NeedSpace(segs) + (r.end - r.begin))
          /\ l.segs = segs \cup {createTaskPriv(r, acquireBuffer(free), NBlocks)}
          /\ l.free = free \ {acquireBuffer(free)}
    BY <1>3 DEF LaunchedOne
  <2>2. /\ r.begin < r.end /\ r.begin < NBlocks /\ r.end <= NBlocks
        /\ r.end <= NBlocks + MaxParallelSize /\ ~(r.end > NBlocks)
        /\ \A q \in r.begin .. r.end - 1 : ~Taken(segs, downloaded, q)
    BY <2>1, TaskAssumption DEF Wanting
  <2>3. NBlocks \in Nat
    BY TaskAssumption
  <2>4. Good(l.segs, downloaded, l.free, contents)
    <3>. DEFINE s == createTaskPriv(r, acquireBuffer(free), NBlocks)
    <3>1. Good(segs \cup {s}, downloaded, free \ {acquireBuffer(free)}, contents)
      BY <2>1, <2>2, <2>3, AddedGood
    <3>. QED BY <3>1, <2>1
  <2>. QED BY <1>1, <2>4
<1>. QED BY <1>1, <1>2, <1>3


-----------------------------------------------------------------------------
(***************************************************************************)
(* Data arrives.                                                           *)
(***************************************************************************)

\* What a good state says, one fact at a time.
LEMMA GoodFacts ==
  ASSUME NEW segs, NEW downloaded, NEW free, NEW contents,
         Good(segs, downloaded, free, contents)
  PROVE  /\ \A t \in segs : Shaped(t)
         /\ \A t \in segs : /\ t.begin \in Nat /\ t.end \in Nat /\ t.pos \in Nat
                            /\ t.begin <= t.pos /\ t.pos < t.end /\ t.pos < NBlocks
                            /\ t.buf \in Buffers /\ t.partial \in BOOLEAN
                            /\ t.todo = t.pos + 1 .. t.end - 1
         /\ Apart(segs)
         /\ Stored(downloaded, free) /\ free \subseteq Buffers
         /\ Held(segs, downloaded, free)
         /\ Kept(segs, downloaded, free)
         /\ Fresh(segs, downloaded)
         /\ Enough(segs, free)
         /\ Intact(segs, downloaded, contents)
<1>1. \A t \in segs : Shaped(t)
  BY DEF Good
<1>2. ASSUME NEW t \in segs
      PROVE  /\ t.begin \in Nat /\ t.end \in Nat /\ t.pos \in Nat
             /\ t.begin <= t.pos /\ t.pos < t.end /\ t.pos < NBlocks
             /\ t.buf \in Buffers /\ t.partial \in BOOLEAN
             /\ t.todo = t.pos + 1 .. t.end - 1
  BY <1>1, TaskAssumption DEF Shaped, Segment
<1>. QED BY <1>1, <1>2 DEF Good, Stored

\* The data of a block goes to the buffer, which holds that block from then on.
LEMMA FilledWith ==
  ASSUME NEW contents \in [Buffers -> Blocks \cup {Mixture}], NEW b \in Buffers,
         NEW k \in Blocks, NEW rest \in BOOLEAN, rest => contents[b] = k
  PROVE  /\ Filled(contents, b, k, rest) \in [Buffers -> Blocks \cup {Mixture}]
         /\ Filled(contents, b, k, rest)[b] = k
         /\ \A c \in Buffers \ {b} : Filled(contents, b, k, rest)[c] = contents[c]
BY DEF Filled

\* A part of a block.
LEMMA ReceivedGood ==
  ASSUME NEW segs, NEW downloaded, NEW free, NEW contents,
         Good(segs, downloaded, free, contents),
         NEW s \in segs, NEW s2, s2 = [s EXCEPT !.partial = TRUE]
  PROVE  Good((segs \ {s}) \cup {s2}, downloaded, free,
              Filled(contents, s.buf, s.pos, FALSE))
<1>. DEFINE segs2 == (segs \ {s}) \cup {s2}
            contents2 == Filled(contents, s.buf, s.pos, FALSE)
<1>a. /\ \A t \in segs : Shaped(t)
      /\ Apart(segs)
      /\ Stored(downloaded, free)
      /\ Held(segs, downloaded, free)
      /\ Kept(segs, downloaded, free)
      /\ Fresh(segs, downloaded)
      /\ Enough(segs, free)
      /\ Intact(segs, downloaded, contents)
      /\ s.buf \in Buffers /\ s.pos \in Nat /\ s.pos < NBlocks
  BY GoodFacts
<1>1. s \in Segment
  BY <1>a DEF Shaped
<1>2. /\ s2.begin = s.begin /\ s2.end = s.end /\ s2.pos = s.pos /\ s2.buf = s.buf
      /\ s2.todo = s.todo
  BY <1>1 DEF Segment
<1>3. s2 \in Segment
  BY <1>1 DEF Segment
<1>4. Shaped(s2)
  BY <1>a, <1>2, <1>3 DEF Shaped
<1>5. Apart(segs2)
  BY <1>a, <1>2 DEF Apart
<1>6. Held(segs2, downloaded, free)
  <2>1. ASSUME NEW t \in segs2
        PROVE  \E u \in segs : u.buf = t.buf /\ (t = s2 <=> u = s) /\ (t # s2 => t = u)
    <3>1. CASE t = s2
      BY <3>1, <1>2
    <3>2. CASE t # s2
      BY <3>2
    <3>. QED BY <3>1, <3>2
  <2>2. ASSUME NEW t \in segs2 PROVE t.buf \notin free /\ \A k \in DOMAIN downloaded : downloaded[k] # t.buf
    BY <2>1, <1>a DEF Held
  <2>3. ASSUME NEW t \in segs2, NEW v \in segs2, v.buf = t.buf PROVE v = t
    <3>1. PICK x \in segs : x.buf = t.buf /\ (t = s2 <=> x = s) /\ (t # s2 => t = x)
      BY <2>1
    <3>2. PICK y \in segs : y.buf = v.buf /\ (v = s2 <=> y = s) /\ (v # s2 => v = y)
      BY <2>1
    <3>3. x = y
      BY <3>1, <3>2, <2>3, <1>a DEF Held
    <3>4. CASE x = s
      <4>1. t = s2
        BY <3>1, <3>4
      <4>2. v = s2
        BY <3>2, <3>3, <3>4
      <4>. QED BY <4>1, <4>2
    <3>5. CASE x # s
      <4>1. t = x
        BY <3>1, <3>5
      <4>2. v = y
        BY <3>2, <3>3, <3>5
      <4>. QED BY <4>1, <4>2, <3>3
    <3>. QED BY <3>4, <3>5
  <2>. QED BY <2>2, <2>3 DEF Held
<1>7. Kept(segs2, downloaded, free)
  <2>1. PICK x \in Buffers \cup {NoBuffer} :
          MayLose(segs, x) /\ KeptBut(segs, downloaded, free, x)
    BY <1>a DEF Kept
  <2>2. MayLose(segs2, x)
    BY <2>1, <1>2 DEF MayLose
  <2>3. KeptBut(segs2, downloaded, free, x)
    BY <2>1, <1>2 DEF KeptBut
  <2>. QED BY <2>2, <2>3 DEF Kept
<1>8. Fresh(segs2, downloaded)
  BY <1>a, <1>2 DEF Fresh
<1>9. Enough(segs2, free)
  <2>1. Wanted(segs2) = Wanted(segs)
    BY <1>2 DEF Wanted
  <2>. QED BY <2>1, <1>a DEF Enough
<1>10. Intact(segs2, downloaded, contents2)
  <2>1. s.pos \in Blocks /\ contents \in [Buffers -> Blocks \cup {Mixture}]
    BY <1>a, TaskAssumption DEF Blocks, Intact
  <2>2. /\ contents2 \in [Buffers -> Blocks \cup {Mixture}]
        /\ contents2[s.buf] = s.pos
        /\ \A c \in Buffers \ {s.buf} : contents2[c] = contents[c]
    BY <2>1, <1>a DEF Filled
  <2>. HIDE DEF contents2
  <2>3. ASSUME NEW k \in DOMAIN downloaded PROVE contents2[downloaded[k]] = k
    <3>1. downloaded[k] \in Buffers \ {s.buf}
      BY <1>a DEF Stored, Held
    <3>. QED BY <3>1, <2>2, <1>a DEF Intact
  <2>4. ASSUME NEW t \in segs2, t.partial PROVE contents2[t.buf] = t.pos
    <3>1. CASE t = s2
      BY <3>1, <1>2, <2>2
    <3>2. CASE t # s2
      <4>1. t \in segs /\ t # s
        BY <3>2
      <4>2. t.buf \in Buffers \ {s.buf}
        BY <4>1, <1>a DEF Held, Shaped, Segment
      <4>. QED BY <4>1, <4>2, <2>2, <2>4, <1>a DEF Intact
    <3>. QED BY <3>1, <3>2
  <2>. QED BY <2>2, <2>3, <2>4 DEF Intact
<1>. QED BY <1>a, <1>4, <1>5, <1>6, <1>7, <1>8, <1>9, <1>10 DEF Good

\* A whole block: its buffer is now kept as the block's.
LEMMA StoredKept ==
  ASSUME NEW segs, NEW downloaded, NEW free, NEW x, KeptBut(segs, downloaded, free, x),
         NEW s \in segs, s.pos \notin DOMAIN downloaded
  PROVE  KeptBut(segs \ {s}, Written(downloaded, s.pos, s.buf), free, x)
<1>. DEFINE d2 == Written(downloaded, s.pos, s.buf)
<1>1. /\ DOMAIN d2 = DOMAIN downloaded \cup {s.pos} /\ d2[s.pos] = s.buf
      /\ \A k \in DOMAIN downloaded : d2[k] = downloaded[k]
  BY DEF Written
<1>. HIDE DEF d2
<1>2. KeptBut(segs \ {s}, d2, free, x)
  <2>. SUFFICES ASSUME NEW b \in Buffers \ {x}, b \notin free
                PROVE  \/ \E k \in DOMAIN d2 : d2[k] = b
                       \/ \E t \in segs \ {s} : t.buf = b
    BY DEF KeptBut
  <2>1. (\E k \in DOMAIN downloaded : downloaded[k] = b) \/ (\E t \in segs : t.buf = b)
    BY DEF KeptBut
  <2>. QED BY <2>1, <1>1
<1>. QED BY <1>2 DEF d2

\* The block is stored, and the segment that received it is looked at
\* afterwards.
LEMMA StoredGood ==
  ASSUME NEW segs, NEW downloaded, NEW free, NEW contents,
         Good(segs, downloaded, free, contents), NEW s \in segs
  PROVE  Good(segs \ {s}, Written(downloaded, s.pos, s.buf), free,
              Filled(contents, s.buf, s.pos, s.partial))
<1>. DEFINE segs2 == segs \ {s}
            downloaded2 == Written(downloaded, s.pos, s.buf)
            contents2 == Filled(contents, s.buf, s.pos, s.partial)
<1>a. /\ \A t \in segs : Shaped(t)
      /\ Apart(segs)
      /\ Stored(downloaded, free) /\ free \subseteq Buffers
      /\ Held(segs, downloaded, free)
      /\ Kept(segs, downloaded, free)
      /\ Fresh(segs, downloaded)
      /\ Enough(segs, free)
      /\ Intact(segs, downloaded, contents)
      /\ s.buf \in Buffers /\ s.pos \in Nat /\ s.pos < NBlocks /\ s.pos < s.end
      /\ s.begin \in Nat /\ s.end \in Nat /\ s.begin <= s.pos /\ s.partial \in BOOLEAN
  BY GoodFacts
<1>1. s.pos \in Blocks
  BY <1>a, TaskAssumption DEF Blocks
<1>2. s.pos \notin DOMAIN downloaded
  <2>1. s.pos \in s.pos .. s.end - 1
    BY <1>a
  <2>. QED BY <2>1, <1>a DEF Fresh
<1>3. /\ DOMAIN downloaded2 = DOMAIN downloaded \cup {s.pos}
      /\ downloaded2[s.pos] = s.buf
      /\ \A k \in DOMAIN downloaded : downloaded2[k] = downloaded[k]
  BY <1>2 DEF Written
<1>. HIDE DEF downloaded2
<1>4. \A t \in segs2 : Shaped(t)
  BY <1>a
<1>5. Apart(segs2)
  BY <1>a DEF Apart
<1>6. Stored(downloaded2, free)
  <2>1. ASSUME NEW k \in DOMAIN downloaded2 PROVE downloaded2[k] \in Buffers \ free
    BY <1>a, <1>3 DEF Stored, Held
  <2>2. ASSUME NEW k \in DOMAIN downloaded2, NEW j \in DOMAIN downloaded2,
               downloaded2[k] = downloaded2[j]
        PROVE  k = j
    BY <1>a, <1>3, <2>2 DEF Stored, Held
  <2>3. DOMAIN downloaded2 \subseteq Blocks
    BY <1>a, <1>1, <1>3 DEF Stored
  <2>. QED BY <1>a, <2>1, <2>2, <2>3 DEF Stored
<1>7. Held(segs2, downloaded2, free)
  BY <1>a, <1>3 DEF Held
<1>8. Kept(segs2, downloaded2, free)
  <2>1. PICK x \in Buffers \cup {NoBuffer} :
          MayLose(segs, x) /\ KeptBut(segs, downloaded, free, x)
    BY <1>a DEF Kept
  <2>2. KeptBut(segs2, downloaded2, free, x)
    BY <2>1, <1>2, StoredKept DEF downloaded2
  <2>3. MayLose(segs2, x)
    BY <2>1 DEF MayLose
  <2>. QED BY <2>2, <2>3 DEF Kept
<1>9. Fresh(segs2, downloaded2)
  <2>. SUFFICES ASSUME NEW t \in segs2, NEW k \in t.pos .. t.end - 1
                PROVE  k \notin DOMAIN downloaded2
    BY DEF Fresh
  <2>1. k \notin DOMAIN downloaded
    BY <1>a DEF Fresh
  <2>2. t.begin \in Nat /\ t.end \in Nat /\ t.pos \in Nat /\ t.begin <= t.pos
    BY GoodFacts
  <2>3. s.end <= t.begin \/ t.end <= s.begin
    BY <1>a DEF Apart
  <2>4. k # s.pos
    BY <2>2, <2>3, <1>a
  <2>. QED BY <2>1, <2>4, <1>3
<1>10. Enough(segs2, free)
  <2>1. Wanted(segs2) \subseteq Wanted(segs)
    BY DEF Wanted
  <2>2. free \subseteq free
    OBVIOUS
  <2>. HIDE DEF segs2
  <2>. QED BY <2>1, <2>2, <1>a, EnoughAgain, Zenon
<1>11. Intact(segs2, downloaded2, contents2)
  <2>1. contents \in [Buffers -> Blocks \cup {Mixture}] /\ (s.partial => contents[s.buf] = s.pos)
    BY <1>a DEF Intact
  <2>2. /\ contents2 \in [Buffers -> Blocks \cup {Mixture}]
        /\ contents2[s.buf] = s.pos
        /\ \A c \in Buffers \ {s.buf} : contents2[c] = contents[c]
    BY <2>1, <1>1, <1>a, FilledWith
  <2>. HIDE DEF contents2
  <2>3. ASSUME NEW k \in DOMAIN downloaded2 PROVE contents2[downloaded2[k]] = k
    <3>1. CASE k = s.pos
      BY <3>1, <1>3, <2>2
    <3>2. CASE k \in DOMAIN downloaded
      <4>1. downloaded[k] \in Buffers \ {s.buf}
        BY <3>2, <1>a DEF Stored, Held
      <4>. QED BY <4>1, <3>2, <1>3, <2>2, <1>a DEF Intact
    <3>. QED BY <3>1, <3>2, <1>3
  <2>4. ASSUME NEW t \in segs2, t.partial PROVE contents2[t.buf] = t.pos
    <3>1. t.buf \in Buffers \ {s.buf}
      BY <1>a DEF Held, Shaped, Segment
    <3>. QED BY <3>1, <2>2, <2>4, <1>a DEF Intact
  <2>. QED BY <2>2, <2>3, <2>4 DEF Intact
<1>. QED BY <1>4, <1>5, <1>6, <1>7, <1>8, <1>9, <1>10, <1>11 DEF Good, downloaded2


\* s2 is s after one more block, with a buffer that was free.
GoesOn(s, s2, free, free2) ==
  /\ s.pos + 1 \in s.todo /\ s2.buf \in free /\ free2 = free \ {s2.buf}
  /\ Shaped(s2) /\ s2.partial = FALSE
  /\ s2.begin = s.begin /\ s2.end = s.end /\ s2.pos = s.pos + 1
  /\ s2.todo = s.todo \ {s.pos + 1}

\* Only s waits for a buffer for k.
OnlyWanted(segs, s, k) ==
  k \in Wanted(segs) /\ Wanted(segs \ {s}) \subseteq Wanted(segs) \ {k}

\* The segment after a block that is not its last: it goes on with a free
\* buffer.
LEMMA AfterSegment ==
  ASSUME NEW segs, NEW downloaded, NEW free, NEW contents,
         Good(segs, downloaded, free, contents), NEW s \in segs, s.pos < Last(s)
  PROVE  GoesOn(s, After(s, free), free, FreeAfter(s, free))
<1>a. /\ \A t \in segs : Shaped(t)
      /\ free \subseteq Buffers /\ Enough(segs, free)
      /\ s.pos \in Nat /\ s.begin \in Nat /\ s.end \in Nat
      /\ s.begin <= s.pos /\ s.todo = s.pos + 1 .. s.end - 1
  BY GoodFacts
<1>1. s.pos + 1 < s.end /\ s.pos + 1 < NBlocks
  BY <1>a, TaskAssumption DEF Last
<1>2. s.pos + 1 \in s.todo
  BY <1>a, <1>1
<1>3. s.todo # {}
  BY <1>2
<1>4. acquireBuffer(free) \in free
  BY <1>3, <1>a, BufferThere
<1>. DEFINE b == acquireBuffer(free)
            s2 == [s EXCEPT !.pos = s.pos + 1, !.partial = FALSE, !.buf = b,
                            !.todo = s.todo \ {s.pos + 1}]
<1>5. After(s, free) = s2 /\ FreeAfter(s, free) = free \ {b}
  BY <1>3 DEF After, BufferAfter, FreeAfter
<1>. HIDE DEF b
<1>6. s \in Segment
  BY <1>a DEF Shaped
<1>7. /\ s2.begin = s.begin /\ s2.end = s.end /\ s2.pos = s.pos + 1 /\ s2.buf = b
      /\ s2.partial = FALSE /\ s2.todo = s.todo \ {s.pos + 1} /\ s2.clipped = s.clipped
  BY <1>6 DEF Segment
<1>8. s2 \in Segment
  <2>1. s.pos + 1 \in 0 .. NBlocks
    BY <1>a, <1>1, TaskAssumption
  <2>2. b \in Buffers /\ s.todo \ {s.pos + 1} \in SUBSET Nat
    BY <1>4, <1>6, <1>a DEF Segment, b
  <2>. QED BY <2>1, <2>2, <1>6 DEF Segment
<1>. HIDE DEF s2
<1>9. s2.todo = s2.pos + 1 .. s2.end - 1
  BY <1>7, <1>a
<1>10. Shaped(s2)
  <2>1. Shaped(s)
    BY <1>a
  <2>. QED BY <2>1, <1>1, <1>7, <1>8, <1>9, <1>a DEF Shaped
<1>11. b \in free
  BY <1>4 DEF b
<1>. QED BY <1>2, <1>5, <1>7, <1>10, <1>11 DEF GoesOn

\* No other segment waits for that block.
LEMMA WantedOnce ==
  ASSUME NEW segs, NEW downloaded, NEW free, NEW contents,
         Good(segs, downloaded, free, contents), NEW s \in segs, NEW k \in s.todo
  PROVE  OnlyWanted(segs, s, k)
<1>1. ASSUME NEW t \in segs, t # s PROVE k \notin t.todo
  BY <1>1, GoodFacts, WantedApart
<1>. QED BY <1>1 DEF Wanted, OnlyWanted

\* A block that is not the segment's last.
LEMMA DeliveredGood ==
  ASSUME NEW segs, NEW downloaded, NEW free, NEW contents,
         Good(segs, downloaded, free, contents), NEW s \in segs, s.pos < Last(s)
  PROVE  Good((segs \ {s}) \cup {After(s, free)}, Written(downloaded, s.pos, s.buf),
              FreeAfter(s, free), Filled(contents, s.buf, s.pos, s.partial))
<1>. DEFINE segs0 == segs \ {s}
            s2 == After(s, free)
            segs2 == segs0 \cup {s2}
            d2 == Written(downloaded, s.pos, s.buf)
            c2 == Filled(contents, s.buf, s.pos, s.partial)
            free2 == FreeAfter(s, free)
<1>0. GoesOn(s, s2, free, free2)
  BY AfterSegment
<1>2. Good(segs0, d2, free, c2)
  BY StoredGood
<1>3. DOMAIN d2 = DOMAIN downloaded \cup {s.pos}
  BY DEF Written
<1>. HIDE DEF s2, free2, d2, c2
<1>1. /\ s.pos + 1 \in s.todo /\ s2.buf \in free /\ free2 = free \ {s2.buf}
      /\ Shaped(s2) /\ s2.partial = FALSE
      /\ s2.begin = s.begin /\ s2.end = s.end /\ s2.pos = s.pos + 1
      /\ s2.todo = s.todo \ {s.pos + 1}
  BY <1>0 DEF GoesOn
<1>a. /\ \A t \in segs0 : Shaped(t)
      /\ Apart(segs0)
      /\ Stored(d2, free)
      /\ Held(segs0, d2, free)
      /\ Kept(segs0, d2, free)
      /\ Fresh(segs0, d2)
      /\ Enough(segs0, free)
      /\ Intact(segs0, d2, c2)
  BY <1>2, GoodFacts
<1>b. /\ Apart(segs) /\ Fresh(segs, downloaded)
      /\ s.pos \in Nat /\ s.end \in Nat /\ s.begin \in Nat
      /\ \A t \in segs : Shaped(t)
      /\ Enough(segs, free) /\ free \subseteq Buffers
  BY GoodFacts
<1>4. \A t \in segs2 : Shaped(t)
  BY <1>a, <1>1
<1>5. Apart(segs2)
  <2>1. ASSUME NEW t \in segs0 PROVE t.end <= s2.begin \/ s2.end <= t.begin
    BY <1>b, <1>1 DEF Apart
  <2>. QED BY <2>1, <1>a DEF Apart
<1>6. Stored(d2, free2)
  BY <1>a, <1>1 DEF Stored
<1>7. Held(segs2, d2, free2)
  <2>1. ASSUME NEW k \in DOMAIN d2 PROVE d2[k] # s2.buf
    BY <1>a, <1>1 DEF Stored
  <2>2. ASSUME NEW t \in segs0 PROVE t.buf # s2.buf
    BY <1>a, <1>1 DEF Held
  <2>. QED BY <2>1, <2>2, <1>a, <1>1 DEF Held
<1>8. Kept(segs2, d2, free2)
  <2>1. PICK x \in Buffers \cup {NoBuffer} :
          MayLose(segs, x) /\ KeptBut(segs, downloaded, free, x)
    BY GoodFacts DEF Kept
  <2>2. s.pos \notin DOMAIN downloaded
    <3>1. s.pos \in s.pos .. s.end - 1
      BY GoodFacts
    <3>. QED BY <3>1, <1>b DEF Fresh
  <2>3. KeptBut(segs0, d2, free, x)
    BY <2>1, <2>2, StoredKept DEF d2
  <2>4. KeptBut(segs2, d2, free2, x)
    BY <2>3, <1>1 DEF KeptBut
  <2>5. MayLose(segs2, x)
    BY <2>1, <1>1 DEF MayLose
  <2>. QED BY <2>4, <2>5 DEF Kept
<1>9. Fresh(segs2, d2)
  <2>1. ASSUME NEW k \in s2.pos .. s2.end - 1 PROVE k \notin DOMAIN d2
    <3>1. k \in s.pos .. s.end - 1 /\ k # s.pos
      BY <1>1, <1>b
    <3>. QED BY <3>1, <1>3, <1>b DEF Fresh
  <2>. QED BY <2>1, <1>a DEF Fresh
<1>10. Enough(segs2, free2)
  <2>1. /\ s.pos + 1 \in Wanted(segs)
        /\ Wanted(segs0) \subseteq Wanted(segs) \ {s.pos + 1}
    <3>1. OnlyWanted(segs, s, s.pos + 1)
      BY <1>1, WantedOnce
    <3>. QED BY <3>1 DEF OnlyWanted
  <2>2. Wanted(segs2) = Wanted(segs0) \cup s2.todo
    BY DEF Wanted
  <2>3. s.todo \subseteq Wanted(segs)
    BY DEF Wanted
  <2>4. Wanted(segs2) \subseteq Wanted(segs) \ {s.pos + 1}
    BY <2>1, <2>2, <2>3, <1>1
  <2>. HIDE DEF segs2
  <2>. QED BY <2>1, <2>4, <1>1, <1>b, EnoughWithoutOne
<1>11. Intact(segs2, d2, c2)
  BY <1>a, <1>1 DEF Intact
<1>. QED BY <1>1, <1>4, <1>5, <1>6, <1>7, <1>8, <1>9, <1>10, <1>11 DEF Good, s2, free2, d2, c2

\* The segment's last block.  A segment that goes beyond the end of the file
\* takes one more buffer, which is the one that is lost: it was the first
\* segment, and the only one.
LEMMA DoneGood ==
  ASSUME NEW segs, NEW downloaded, NEW free, NEW contents,
         Good(segs, downloaded, free, contents), NEW s \in segs, s.pos = Last(s)
  PROVE  Good(segs \ {s}, Written(downloaded, s.pos, s.buf), FreeAfter(s, free),
              Filled(contents, s.buf, s.pos, s.partial))
<1>. DEFINE segs0 == segs \ {s}
            d2 == Written(downloaded, s.pos, s.buf)
            c2 == Filled(contents, s.buf, s.pos, s.partial)
            b == acquireBuffer(free)
<1>1. Good(segs0, d2, free, c2)
  BY StoredGood
<1>2. CASE s.todo = {}
  BY <1>1, <1>2 DEF FreeAfter
<1>3. CASE s.todo # {}
  <2>a. /\ \A t \in segs : Shaped(t)
        /\ s.pos \in Nat /\ s.end \in Nat /\ s.todo = s.pos + 1 .. s.end - 1
        /\ Enough(segs, free) /\ free \subseteq Buffers /\ Apart(segs)
    BY GoodFacts
  <2>1. b \in free
    BY <1>3, <2>a, BufferThere
  <2>2. s.end > NBlocks /\ s.begin = 0 /\ MaxParallelSize > NBlocks
    <3>1. s.pos + 1 < s.end
      BY <1>3, <2>a
    <3>2. s.end > NBlocks
      BY <3>1, <2>a, TaskAssumption DEF Last
    <3>. QED BY <3>2, <2>a DEF Shaped
  <2>k. segs0 = {}
    <3>. SUFFICES ASSUME NEW t \in segs, t # s PROVE FALSE
      OBVIOUS
    <3>1. /\ t.begin \in Nat /\ t.end \in Nat /\ t.pos \in Nat
          /\ t.begin <= t.pos /\ t.pos < t.end /\ t.pos < NBlocks
      BY GoodFacts
    <3>2. s.end <= t.begin \/ t.end <= s.begin
      BY <2>a DEF Apart
    <3>. QED BY <2>2, <2>a, <3>1, <3>2, TaskAssumption
  <2>l. KeptBut(segs, downloaded, free, NoBuffer)
    <3>1. PICK x \in Buffers \cup {NoBuffer} :
            MayLose(segs, x) /\ KeptBut(segs, downloaded, free, x)
      BY GoodFacts DEF Kept
    <3>2. x = NoBuffer
      BY <3>1, <2>2, <2>a, TaskAssumption DEF MayLose
    <3>. QED BY <3>1, <3>2
  <2>m. s.pos \notin DOMAIN downloaded
    <3>1. s.pos \in s.pos .. s.end - 1 /\ Fresh(segs, downloaded)
      BY GoodFacts
    <3>. QED BY <3>1 DEF Fresh
  <2>n. KeptBut(segs0, d2, free, NoBuffer)
    BY <2>l, <2>m, StoredKept
  <2>3. FreeAfter(s, free) = free \ {b}
    BY <1>3 DEF FreeAfter
  <2>. HIDE DEF b, d2, c2
  <2>4. PICK k : k \in s.todo
    BY <1>3
  <2>5. k \in Wanted(segs) /\ Wanted(segs0) \subseteq Wanted(segs) \ {k}
    BY <2>4, WantedOnce DEF OnlyWanted
  <2>6. Enough(segs0, free \ {b})
    <3>. HIDE DEF segs0
    <3>. QED BY <2>1, <2>5, <2>a, EnoughWithoutOne
  <2>7. Stored(d2, free \ {b}) /\ Held(segs0, d2, free \ {b})
    BY <1>1 DEF Good, Stored, Held
  <2>8. Kept(segs0, d2, free \ {b})
    <3>1. KeptBut(segs0, d2, free \ {b}, b)
      <4>1. NoBuffer \notin Buffers
        BY BuffersAssumption DEF NoBuffer
      <4>. QED BY <2>n, <4>1 DEF KeptBut
    <3>2. MayLose(segs0, b) /\ b \in Buffers
      BY <2>1, <2>2, <2>a, <2>k DEF MayLose
    <3>. QED BY <3>1, <3>2 DEF Kept
  <2>. QED BY <1>1, <2>3, <2>6, <2>7, <2>8 DEF Good, d2, c2
<1>. QED BY <1>2, <1>3


-----------------------------------------------------------------------------
(***************************************************************************)
(* Buffers are given back.                                                 *)
(***************************************************************************)

\* Segments leave the list and give their buffers back: the one that failed,
\* or all of them.
LEMMA RemovedGood ==
  ASSUME NEW segs, NEW downloaded, NEW free, NEW contents,
         Good(segs, downloaded, free, contents), NEW gone \in SUBSET segs
  PROVE  Good(segs \ gone, downloaded, free \cup {s.buf : s \in gone}, contents)
<1>. DEFINE segs2 == segs \ gone
            free2 == free \cup {s.buf : s \in gone}
<1>a. /\ \A t \in segs : Shaped(t) /\ t.buf \in Buffers
      /\ Apart(segs)
      /\ Stored(downloaded, free) /\ free \subseteq Buffers
      /\ Held(segs, downloaded, free)
      /\ Kept(segs, downloaded, free)
      /\ Fresh(segs, downloaded)
      /\ Enough(segs, free)
      /\ Intact(segs, downloaded, contents)
  BY GoodFacts
<1>1. /\ \A t \in segs2 : Shaped(t)
      /\ Apart(segs2) /\ Fresh(segs2, downloaded) /\ Intact(segs2, downloaded, contents)
  BY <1>a DEF Apart, Fresh, Intact
<1>2. free \subseteq free2 /\ free2 \subseteq Buffers
  BY <1>a
<1>3. Stored(downloaded, free2) /\ Held(segs2, downloaded, free2)
  BY <1>a, <1>2 DEF Stored, Held
<1>4. Kept(segs2, downloaded, free2)
  <2>1. PICK x \in Buffers \cup {NoBuffer} :
          MayLose(segs, x) /\ KeptBut(segs, downloaded, free, x)
    BY <1>a DEF Kept
  <2>2. MayLose(segs2, x) /\ KeptBut(segs2, downloaded, free2, x)
    BY <2>1 DEF MayLose, KeptBut
  <2>. QED BY <2>2 DEF Kept
<1>5. Wanted(segs2) \subseteq Wanted(segs)
  BY DEF Wanted
<1>6. Enough(segs2, free2)
  <2>. HIDE DEF segs2, free2
  <2>. QED BY <1>a, <1>2, <1>5, EnoughAgain
<1>. QED BY <1>1, <1>3, <1>4, <1>6, <1>a DEF Good

\* Downloaded blocks give their buffers back: the one that falls out of the
\* LRU list, or all that are not in it.
LEMMA EvictedGood ==
  ASSUME NEW segs, NEW downloaded, NEW free, NEW contents,
         Good(segs, downloaded, free, contents), NEW gone
  PROVE  Good(segs, Restricted(downloaded, DOMAIN downloaded \ gone),
              free \cup {downloaded[j] : j \in gone \cap DOMAIN downloaded}, contents)
<1>. DEFINE d2 == Restricted(downloaded, DOMAIN downloaded \ gone)
            free2 == free \cup {downloaded[j] : j \in gone \cap DOMAIN downloaded}
<1>a. /\ \A t \in segs : Shaped(t)
      /\ Apart(segs)
      /\ Stored(downloaded, free) /\ free \subseteq Buffers
      /\ Held(segs, downloaded, free)
      /\ Kept(segs, downloaded, free)
      /\ Fresh(segs, downloaded)
      /\ Enough(segs, free)
      /\ Intact(segs, downloaded, contents)
  BY GoodFacts
<1>1. /\ DOMAIN d2 = DOMAIN downloaded \ gone
      /\ \A k \in DOMAIN d2 : d2[k] = downloaded[k]
  BY DEF Restricted
<1>. HIDE DEF d2
<1>2. free \subseteq free2 /\ free2 \subseteq Buffers
  BY <1>a DEF Stored
<1>3. Stored(d2, free2)
  <2>1. ASSUME NEW k \in DOMAIN d2 PROVE d2[k] \in Buffers \ free2
    <3>1. d2[k] \in Buffers \ free /\ d2[k] = downloaded[k] /\ k \in DOMAIN downloaded /\ k \notin gone
      BY <1>a, <1>1 DEF Stored
    <3>2. \A j \in gone \cap DOMAIN downloaded : downloaded[j] # downloaded[k]
      BY <3>1, <1>a DEF Stored
    <3>. QED BY <3>1, <3>2
  <2>. QED BY <2>1, <1>1, <1>2, <1>a DEF Stored
<1>4. Held(segs, d2, free2)
  BY <1>a, <1>1 DEF Held
<1>5. Kept(segs, d2, free2)
  <2>1. PICK x \in Buffers \cup {NoBuffer} :
          MayLose(segs, x) /\ KeptBut(segs, downloaded, free, x)
    BY <1>a DEF Kept
  <2>2. ASSUME NEW b \in Buffers \ {x}
        PROVE  \/ b \in free2
               \/ \E k \in DOMAIN d2 : d2[k] = b
               \/ \E s \in segs : s.buf = b
    <3>1. \/ b \in free \/ \E s \in segs : s.buf = b
          \/ \E k \in DOMAIN downloaded : downloaded[k] = b
      BY <2>1 DEF KeptBut
    <3>. QED BY <3>1, <1>1
  <2>. QED BY <2>1, <2>2 DEF Kept, KeptBut
<1>6. Fresh(segs, d2) /\ Intact(segs, d2, contents)
  BY <1>a, <1>1 DEF Fresh, Intact
<1>7. Enough(segs, free2)
  <2>1. Wanted(segs) \subseteq Wanted(segs)
    OBVIOUS
  <2>. HIDE DEF free2
  <2>. QED BY <1>a, <1>2, <2>1, EnoughAgain
<1>. QED BY <1>a, <1>3, <1>4, <1>5, <1>6, <1>7 DEF Good, d2

LEMMA ReadGood ==
  ASSUME NEW segs, NEW downloaded, NEW free, NEW contents, NEW cache, NEW k,
         Good(segs, downloaded, free, contents)
  PROVE  Good(segs, DownloadedAfterRead(downloaded, cache, k),
              FreeAfterRead(free, downloaded, cache, k), contents)
BY EvictedGood DEF DownloadedAfterRead, FreeAfterRead

LEMMA PurgedGood ==
  ASSUME NEW segs, NEW downloaded, NEW free, NEW contents, NEW cache,
         Good(segs, downloaded, free, contents)
  PROVE  Good({}, DownloadedAfterPurge(downloaded, cache),
              FreeAfterPurge(free, downloaded, cache) \cup {s.buf : s \in segs}, contents)
<1>. DEFINE gone  == DOMAIN downloaded \ DOMAIN cache
            d2    == DownloadedAfterPurge(downloaded, cache)
            free1 == free \cup {s.buf : s \in segs}
            free2 == FreeAfterPurge(free, downloaded, cache) \cup {s.buf : s \in segs}
<1>1. Good(segs \ segs, downloaded, free1, contents)
  BY RemovedGood
<1>2. segs \ segs = {}
  OBVIOUS
<1>3. Good({}, downloaded, free1, contents)
  BY <1>1, <1>2
<1>4. Restricted(downloaded, DOMAIN downloaded \ gone) = d2
  <2>1. DOMAIN downloaded \cap (DOMAIN downloaded \ gone) = DOMAIN downloaded \cap DOMAIN cache
    OBVIOUS
  <2>. QED BY <2>1 DEF Restricted, DownloadedAfterPurge
<1>5. free1 \cup {downloaded[j] : j \in gone \cap DOMAIN downloaded} = free2
  BY DEF FreeAfterPurge
<1>. HIDE DEF gone, d2, free1, free2
<1>6. Good({}, Restricted(downloaded, DOMAIN downloaded \ gone),
           free1 \cup {downloaded[j] : j \in gone \cap DOMAIN downloaded}, contents)
  BY <1>3, EvictedGood
<1>7. Good({}, d2, free2, contents)
  BY <1>4, <1>5, <1>6
<1>. QED BY <1>7 DEF d2, free2


-----------------------------------------------------------------------------
(***************************************************************************)
(* The invariant.  The size is known from the first data on, and the       *)
(* source is told of it later than that.                                   *)
(***************************************************************************)

ClientOK ==
  /\ mCurrReadPosition \in 0 .. NBlocks
  /\ DOMAIN mReadCache \subseteq Blocks
  /\ error \in BOOLEAN
  /\ seeks \in 0 .. MaxSeeks /\ errors \in 0 .. MaxErrors

SizeKnown ==
  /\ mCurrWritePosition \in Nat /\ mIsGettingSize \in BOOLEAN
  /\ mTaskSize \in {0, NBlocks}
  /\ client \in {"creating", "created", "open", "seeking", "failed"}
  /\ mTaskSize = 0 => mIsGettingSize /\ client \in {"creating", "failed"}

TaskInv ==
  /\ Good(mTaskPriv, mDownloadedSegments, mFreeSegmentIndex, content)
  /\ SizeKnown /\ ClientOK

LEMMA GoodInit == Init => TaskInv
<1>. SUFFICES ASSUME Init PROVE TaskInv
  OBVIOUS
<1>. DEFINE empty == [b \in Buffers |-> Mixture]
            r == [begin |-> 0, end |-> MaxParallelSize]
            b == acquireBuffer(Buffers)
            l == Launched({}, <<>>, Buffers, 0, 0, TRUE)
<1>a. /\ MaxParallelSize \in Nat /\ MaxParallelSize > 0 /\ NBlocks \in Nat /\ NBlocks > 0
      /\ MaxParallelNum > 0 /\ MaxParallelSize <= Cardinality(Buffers)
      /\ IsFiniteSet(Buffers) /\ MaxSeeks \in Nat /\ MaxErrors \in Nat /\ MaxParallelNum \in Nat
  BY TaskAssumption, BuffersAssumption
<1>1. Wanted({}) = {} /\ NeedSpace({}) = 0 /\ Cardinality(Wanted({})) = 0
  <2>1. Wanted({}) = {}
    BY DEF Wanted
  <2>2. NeedSpace({}) = Cardinality(Wanted({}))
    BY NeedIsWanted DEF Apart
  <2>. QED BY <2>1, <2>2, FS_EmptySet
<1>2. Good({}, <<>>, Buffers, empty)
  <2>1. DOMAIN <<>> = {}
    OBVIOUS
  <2>2. Cardinality(Buffers) \in Nat
    BY <1>a, FS_CardinalityType
  <2>3. Enough({}, Buffers)
    BY <1>1, <2>2 DEF Enough
  <2>4. Stored(<<>>, Buffers) /\ Held({}, <<>>, Buffers) /\ Kept({}, <<>>, Buffers)
    BY <2>1 DEF Stored, Held, Kept, KeptBut, MayLose
  <2>5. Fresh({}, <<>>) /\ Apart({})
    BY DEF Fresh, Apart
  <2>6. Intact({}, <<>>, empty)
    BY <2>1 DEF Intact
  <2>. QED BY <2>3, <2>4, <2>5, <2>6 DEF Good
<1>3. /\ r \in [begin : Nat, end : Nat] /\ r.begin = 0 /\ r.end = MaxParallelSize
      /\ r.end - r.begin = MaxParallelSize
  BY <1>a
<1>4. isEnoughFreespace(Buffers, NeedSpace({}) + (r.end - r.begin))
  BY <1>a, <1>1, <1>3 DEF isEnoughFreespace
<1>5. /\ Ranges({}, <<>>, 0, 0) = {r}
      /\ (CHOOSE x \in Ranges({}, <<>>, 0, 0) : TRUE) = r
  <2>1. Ranges({}, <<>>, 0, 0) = {r}
    BY DEF Ranges
  <2>. HIDE DEF r
  <2>. QED BY <2>1
<1>6. Cardinality({}) = 0
  BY FS_EmptySet
<1>7. l = [segs |-> {} \cup {createTaskPriv(r, b, 0)}, free |-> Buffers \ {b},
           w |-> r.end, getting |-> (0 = 0)]
  <2>1. ~(0 > 0 /\ 0 >= 0) /\ ~(Cardinality({}) >= MaxParallelNum) /\ Ranges({}, <<>>, 0, 0) # {}
    BY <1>a, <1>5, <1>6
  <2>. HIDE DEF r
  <2>. QED BY <2>1, <1>4, <1>5 DEF Launched
<1>8. Good({} \cup {createTaskPriv(r, b, 0)}, <<>>, Buffers \ {b}, empty)
  <2>1. \A q \in r.begin .. r.end - 1 : ~Taken({}, <<>>, q)
    BY DEF Taken, isPositionCached, isProcessingPosition
  <2>2. /\ r.begin < r.end /\ r.end <= NBlocks + MaxParallelSize /\ r.begin < NBlocks
        /\ r.end > NBlocks => r.begin = 0 /\ MaxParallelSize > NBlocks
    BY <1>a, <1>3
  <2>3. 0 \in Nat
    OBVIOUS
  <2>. HIDE DEF r
  <2>. QED BY <1>2, <1>3, <1>4, <2>1, <2>2, <2>3, AddedGood
<1>. HIDE DEF r, b, l
<1>9. /\ l.segs = {} \cup {createTaskPriv(r, b, 0)} /\ l.free = Buffers \ {b}
      /\ l.w = r.end
  BY <1>7
<1>10. l.getting = (0 = 0)
  BY <1>7
<1>11. /\ mTaskPriv = l.segs /\ mFreeSegmentIndex = l.free
       /\ mCurrWritePosition = l.w /\ mIsGettingSize = l.getting
       /\ content = empty /\ mDownloadedSegments = <<>>
  BY DEF Init, l
<1>12. Good(mTaskPriv, mDownloadedSegments, mFreeSegmentIndex, content)
  BY <1>8, <1>9, <1>11
<1>13. SizeKnown
  BY <1>a, <1>3, <1>9, <1>10, <1>11 DEF Init, SizeKnown
<1>14. ClientOK
  <2>1. DOMAIN mReadCache = {}
    BY DEF Init
  <2>2. 0 \in 0 .. NBlocks /\ 0 \in 0 .. MaxSeeks /\ 0 \in 0 .. MaxErrors
    BY <1>a
  <2>. QED BY <2>1, <2>2 DEF Init, ClientOK
<1>. QED BY <1>12, <1>13, <1>14 DEF TaskInv

\* A segment is launched, or not, at the end of a step.
LEMMA LaunchStep ==
  ASSUME ~Aligned, ~EndsInside, NEW segs, NEW downloaded, NEW free, NEW contents,
         Good(segs, downloaded, free, contents), NEW w \in Nat, mIsGettingSize \in BOOLEAN,
         Launch(segs, downloaded, free, w, NBlocks)
  PROVE  /\ Good(mTaskPriv', downloaded, mFreeSegmentIndex', contents)
         /\ mCurrWritePosition' \in Nat /\ mIsGettingSize' \in BOOLEAN
<1>1. PICK l : /\ l = Launched(segs, downloaded, free, w, NBlocks, mIsGettingSize)
               /\ mTaskPriv' = l.segs /\ mFreeSegmentIndex' = l.free
               /\ mCurrWritePosition' = l.w /\ mIsGettingSize' = l.getting
  BY LaunchesOne DEF Launch
<1>2. Good(l.segs, downloaded, l.free, contents) /\ l.w \in Nat /\ l.getting \in BOOLEAN
  BY <1>1, LaunchGood
<1>. QED BY <1>1, <1>2

LEMMA GoodStep == ASSUME ~Aligned, ~EndsInside, TaskInv, [Next]_vars PROVE TaskInv'
<1>a. /\ Good(mTaskPriv, mDownloadedSegments, mFreeSegmentIndex, content)
      /\ SizeKnown /\ ClientOK
  BY DEF TaskInv
<1>b. NBlocks \in Nat /\ NBlocks > 0 /\ MaxSeeks \in Nat /\ MaxErrors \in Nat
  BY TaskAssumption
<1>c. SizeAfterHeader = NBlocks
  BY <1>a, <1>b DEF SizeKnown, SizeAfterHeader
<1>d. DOMAIN mDownloadedSegments \subseteq Blocks
  BY <1>a, GoodFacts DEF Stored
<1>e. mIsGettingSize \in BOOLEAN /\ mCurrWritePosition \in Nat
  BY <1>a DEF SizeKnown
<1>f. client \in {"created", "open", "seeking"} => mTaskSize = NBlocks
  BY <1>a DEF SizeKnown
<1>1. ASSUME NEW s \in mTaskPriv, Receive(s) PROVE TaskInv'
  <2>1. Good(mTaskPriv', mDownloadedSegments, mFreeSegmentIndex, content')
    BY <1>1, <1>a, ReceivedGood DEF Receive
  <2>2. SizeKnown' /\ ClientOK'
    BY <1>1, <1>a, <1>b, <1>c DEF Receive, SizeKnown, ClientOK, clientVars
  <2>3. UNCHANGED <<mDownloadedSegments, mFreeSegmentIndex>>
    BY <1>1 DEF Receive
  <2>. QED BY <2>1, <2>2, <2>3 DEF TaskInv
<1>2. ASSUME NEW s \in mTaskPriv, ReceiveBlock(s) PROVE TaskInv'
  <2>1. Good((mTaskPriv \ {s}) \cup {After(s, mFreeSegmentIndex)},
             Written(mDownloadedSegments, s.pos, s.buf), FreeAfter(s, mFreeSegmentIndex),
             Filled(content, s.buf, s.pos, s.partial))
    BY <1>2, <1>a, DeliveredGood DEF ReceiveBlock
  <2>2. Good(mTaskPriv, mDownloadedSegments, mFreeSegmentIndex, content)'
    BY <1>2, <2>1 DEF ReceiveBlock, WriteOut
  <2>3. SizeKnown' /\ ClientOK'
    BY <1>2, <1>a, <1>b, <1>c DEF ReceiveBlock, WriteOut, SizeKnown, ClientOK, clientVars
  <2>. QED BY <2>2, <2>3 DEF TaskInv
<1>3. ASSUME NEW s \in mTaskPriv, SegmentDone(s) PROVE TaskInv'
  <2>. DEFINE d2 == Written(mDownloadedSegments, s.pos, s.buf)
              c2 == Filled(content, s.buf, s.pos, s.partial)
              w2 == WrapPosition(s, mCurrWritePosition, NBlocks)
  <2>0. s.pos = Last(s) /\ ~Ended(s)
    <3>1. s.pos \in Nat /\ s.end \in Nat /\ s.pos < s.end /\ s.pos < NBlocks
      BY <1>a, GoodFacts
    <3>2. s.pos <= Last(s) /\ Last(s) \in Int
      BY <3>1, <1>b DEF Last
    <3>3. s.pos >= Last(s)
      BY <1>3 DEF SegmentDone
    <3>. QED BY <3>1, <3>2, <3>3 DEF Ended
  <2>1. Good(mTaskPriv \ {s}, d2, FreeAfter(s, mFreeSegmentIndex), c2)
    BY <2>0, <1>a, DoneGood
  <2>2. mDownloadedSegments' = d2 /\ content' = c2 /\ mTaskSize' = NBlocks
    BY <1>3, <2>0, <1>c DEF SegmentDone, WriteOut
  <2>3. w2 \in Nat
    BY <1>e DEF WrapPosition
  <2>4. Launch(mTaskPriv \ {s}, d2, FreeAfter(s, mFreeSegmentIndex), w2, NBlocks)
    BY <1>3, <2>0, <2>2 DEF SegmentDone
  <2>. HIDE DEF d2, c2, w2
  <2>5. /\ Good(mTaskPriv', d2, mFreeSegmentIndex', c2)
        /\ mCurrWritePosition' \in Nat /\ mIsGettingSize' \in BOOLEAN
    BY <2>1, <2>3, <2>4, <1>e, LaunchStep
  <2>6. Good(mTaskPriv, mDownloadedSegments, mFreeSegmentIndex, content)'
    BY <2>2, <2>5
  <2>7. SizeKnown'
    <3>1. client' \in {"creating", "created", "open", "seeking", "failed"}
      BY <1>3, <1>a DEF SegmentDone, SizeKnown
    <3>. QED BY <2>2, <2>5, <3>1, <1>b DEF SizeKnown
  <2>8. ClientOK'
    BY <1>3, <1>a DEF SegmentDone, ClientOK
  <2>. QED BY <2>6, <2>7, <2>8 DEF TaskInv
<1>4. ASSUME NEW s \in mTaskPriv, NEW silent \in BOOLEAN, SegmentFails(s, silent) PROVE TaskInv'
  <2>1. Good(mTaskPriv \ {s}, mDownloadedSegments,
             mFreeSegmentIndex \cup {t.buf : t \in {s}}, content)
    BY <1>a, RemovedGood
  <2>2. {t.buf : t \in {s}} = {s.buf}
    OBVIOUS
  <2>3. Good(mTaskPriv, mDownloadedSegments, mFreeSegmentIndex, content)'
    BY <1>4, <2>1, <2>2 DEF SegmentFails
  <2>4. s.pos \in Nat
    BY <1>a, GoodFacts
  <2>5. mCurrWritePosition' \in Nat
    BY <1>4, <1>e, <2>4 DEF SegmentFails, RetryPosition
  <2>6. SizeKnown'
    <3>1. client' \in {client, "failed"} /\ mTaskSize' = mTaskSize /\ mIsGettingSize' = mIsGettingSize
      BY <1>4 DEF SegmentFails
    <3>. QED BY <3>1, <2>5, <1>a DEF SizeKnown
  <2>7. ClientOK'
    <3>1. errors' \in 0 .. MaxErrors
      BY <1>4, <1>a, <1>b DEF SegmentFails, ClientOK
    <3>2. error' \in BOOLEAN
      BY <1>4 DEF SegmentFails
    <3>. QED BY <1>4, <1>a, <3>1, <3>2 DEF SegmentFails, ClientOK
  <2>. QED BY <2>3, <2>6, <2>7 DEF TaskInv
<1>5. ASSUME Timer PROVE TaskInv'
  <2>0. mTaskSize = NBlocks
    BY <1>5, <1>f DEF Timer, IsOpen
  <2>1. PICK l : l = Launched(mTaskPriv, mDownloadedSegments, mFreeSegmentIndex,
                              mCurrWritePosition, NBlocks, mIsGettingSize)
                 /\ \E k \in {Launched(l.segs, mDownloadedSegments, l.free, l.w, NBlocks, l.getting)} :
                      /\ mTaskPriv' = k.segs /\ mFreeSegmentIndex' = k.free
                      /\ mCurrWritePosition' = k.w /\ mIsGettingSize' = k.getting
    <3>1. PICK l \in Launches(mTaskPriv, mDownloadedSegments, mFreeSegmentIndex,
                              mCurrWritePosition, NBlocks, mIsGettingSize) :
            \E k \in Launches(l.segs, mDownloadedSegments, l.free, l.w, NBlocks, l.getting) :
               /\ mTaskPriv' = k.segs /\ mFreeSegmentIndex' = k.free
               /\ mCurrWritePosition' = k.w /\ mIsGettingSize' = k.getting
      BY <1>5, <2>0 DEF Timer
    <3>. QED BY <3>1, LaunchesOne
  <2>2. /\ Good(l.segs, mDownloadedSegments, l.free, content)
        /\ l.w \in Nat /\ l.getting \in BOOLEAN
    BY <2>1, <1>a, <1>e, LaunchGood
  <2>3. PICK k : /\ k = Launched(l.segs, mDownloadedSegments, l.free, l.w, NBlocks, l.getting)
                 /\ mTaskPriv' = k.segs /\ mFreeSegmentIndex' = k.free
                 /\ mCurrWritePosition' = k.w /\ mIsGettingSize' = k.getting
    BY <2>1
  <2>4. /\ Good(k.segs, mDownloadedSegments, k.free, content)
        /\ k.w \in Nat /\ k.getting \in BOOLEAN
    <3>. DEFINE segs1 == l.segs
                free1 == l.free
                w1    == l.w
                getting1 == l.getting
    <3>1. /\ Good(segs1, mDownloadedSegments, free1, content)
          /\ w1 \in Nat /\ getting1 \in BOOLEAN
          /\ k = Launched(segs1, mDownloadedSegments, free1, w1, NBlocks, getting1)
      BY <2>2, <2>3
    <3>. HIDE DEF segs1, free1, w1, getting1
    <3>. QED BY <3>1, LaunchGood
  <2>5. UNCHANGED <<mDownloadedSegments, mReadCache, content, mTaskSize, clientVars>>
    BY <1>5 DEF Timer
  <2>6. Good(mTaskPriv, mDownloadedSegments, mFreeSegmentIndex, content)'
    BY <2>3, <2>4, <2>5
  <2>7. SizeKnown' /\ ClientOK'
    BY <2>0, <2>3, <2>4, <2>5, <1>a, <1>b DEF SizeKnown, ClientOK, clientVars
  <2>. QED BY <2>6, <2>7 DEF TaskInv
<1>6. ASSUME Open \/ OpenTimesOut PROVE TaskInv'
  <2>1. UNCHANGED <<mTaskPriv, mDownloadedSegments, mFreeSegmentIndex, content>>
    BY <1>6 DEF Open, OpenTimesOut, bufferVars
  <2>2. SizeKnown' /\ ClientOK'
    BY <1>6, <1>a, <1>f, <1>b DEF Open, OpenTimesOut, SizeKnown, ClientOK, bufferVars
  <2>. QED BY <2>1, <2>2, <1>a DEF TaskInv
<1>7. ASSUME Read PROVE TaskInv'
  <2>1. Good(mTaskPriv, mDownloadedSegments, mFreeSegmentIndex, content)'
    BY <1>7, <1>a, ReadGood DEF Read
  <2>2. mCurrReadPosition \in DOMAIN mDownloadedSegments
    BY <1>7 DEF Read, isPositionCached
  <2>3. mCurrReadPosition' \in 0 .. NBlocks
    BY <1>7, <1>b, <1>d, <2>2 DEF Read, Blocks
  <2>4. DOMAIN mReadCache' \subseteq Blocks
    BY <1>7, <1>a, <1>d, <2>2 DEF Read, Accessed, ClientOK
  <2>5. SizeKnown' /\ ClientOK'
    BY <1>7, <1>a, <2>3, <2>4 DEF Read, SizeKnown, ClientOK
  <2>. QED BY <2>1, <2>5 DEF TaskInv
<1>8. ASSUME NEW k \in 0 .. NBlocks, Seek(k) PROVE TaskInv'
  <2>. DEFINE block == IF k = NBlocks /\ ~Aligned THEN NBlocks - 1 ELSE k
              d2    == DownloadedAfterPurge(mDownloadedSegments, mReadCache)
              free2 == FreeAfterPurge(mFreeSegmentIndex, mDownloadedSegments, mReadCache)
                         \cup {s.buf : s \in mTaskPriv}
  <2>0. block \in Nat /\ mTaskSize = NBlocks
    BY <1>8, <1>b, <1>f DEF Seek
  <2>s. /\ seeks' \in 0 .. MaxSeeks /\ error' \in BOOLEAN
        /\ mCurrReadPosition' \in 0 .. NBlocks /\ errors' \in 0 .. MaxErrors
        /\ client' = "open"
    BY <1>8, <1>a DEF Seek, ClientOK
  <2>1. CASE isPositionCached(mDownloadedSegments, block)
    <3>1. UNCHANGED <<bufferVars, mTaskPriv, mCurrWritePosition, mIsGettingSize, mTaskSize>>
      BY <1>8, <2>1 DEF Seek
    <3>2. SizeKnown'
      BY <3>1, <2>0, <2>s, <1>a, <1>b DEF SizeKnown
    <3>3. Good(mTaskPriv, mDownloadedSegments, mFreeSegmentIndex, content)'
      BY <3>1, <1>a DEF bufferVars
    <3>4. UNCHANGED mReadCache
      BY <3>1 DEF bufferVars
    <3>. QED BY <2>s, <3>2, <3>3, <3>4, <1>a DEF TaskInv, ClientOK
  <2>2. CASE ~isPositionCached(mDownloadedSegments, block)
    <3>1. Good({}, d2, free2, content)
      BY <1>a, PurgedGood
    <3>2. /\ mDownloadedSegments' = d2 /\ Launch({}, d2, free2, block, NBlocks)
          /\ UNCHANGED <<mReadCache, content>>
      BY <1>8, <2>0, <2>2 DEF Seek
    <3>. HIDE DEF d2, free2, block
    <3>3. /\ Good(mTaskPriv', d2, mFreeSegmentIndex', content)
          /\ mCurrWritePosition' \in Nat /\ mIsGettingSize' \in BOOLEAN
      BY <3>1, <3>2, <2>0, <1>e, LaunchStep
    <3>4. SizeKnown'
      BY <1>8, <1>a, <1>b, <2>0, <2>s, <3>3 DEF Seek, SizeKnown
    <3>5. ClientOK'
      BY <2>s, <1>a, <3>2 DEF ClientOK
    <3>. QED BY <3>2, <3>3, <3>4, <3>5 DEF TaskInv
  <2>. QED BY <2>1, <2>2
<1>9. ASSUME BeastSeek PROVE TaskInv'
  <2>1. UNCHANGED <<mTaskPriv, mDownloadedSegments, mFreeSegmentIndex, content>>
    BY <1>9 DEF BeastSeek, bufferVars
  <2>2. SizeKnown'
    BY <1>9, <1>a, <1>b, <1>f DEF BeastSeek, SizeKnown
  <2>3. ClientOK'
    <3>1. seeks' \in 0 .. MaxSeeks
      BY <1>9, <1>a, <1>b DEF BeastSeek, ClientOK
    <3>2. UNCHANGED <<mCurrReadPosition, mReadCache, errors>> /\ error' = FALSE
      BY <1>9 DEF BeastSeek, bufferVars
    <3>. QED BY <3>1, <3>2, <1>a DEF ClientOK
  <2>. QED BY <2>1, <2>2, <2>3, <1>a DEF TaskInv
<1>10. CASE UNCHANGED vars
  BY <1>10, <1>a DEF vars, bufferVars, clientVars, TaskInv, SizeKnown, ClientOK
<1>. QED BY <1>1, <1>2, <1>3, <1>4, <1>5, <1>6, <1>7, <1>8, <1>9, <1>10 DEF Next


-----------------------------------------------------------------------------
(***************************************************************************)
(* What follows from the invariant.                                        *)
(***************************************************************************)

\* In every reachable state the invariant holds.
THEOREM TaskIsGood == ASSUME ~Aligned, ~EndsInside PROVE Spec => []TaskInv
<1>1. Init => TaskInv
  BY GoodInit
<1>2. TaskInv /\ [Next]_vars => TaskInv'
  BY GoodStep
<1>. QED BY <1>1, <1>2, PTL DEF Spec

\* Every variable of the task and its buffers has its type, whatever fails and
\* wherever the source seeks.
THEOREM TaskTypeCorrect == ASSUME ~Aligned, ~EndsInside PROVE Spec => []TypeOK
<1>1. TaskInv => TypeOK
  <2>. SUFFICES ASSUME TaskInv PROVE TypeOK
    OBVIOUS
  <2>1. /\ \A s \in mTaskPriv : s \in Segment
        /\ Stored(mDownloadedSegments, mFreeSegmentIndex)
        /\ content \in [Buffers -> Blocks \cup {Mixture}]
    BY GoodFacts DEF TaskInv, Shaped, Intact
  <2>2. SizeKnown /\ ClientOK
    BY DEF TaskInv
  <2>. QED BY <2>1, <2>2 DEF TypeOK, Stored, SizeKnown, ClientOK
<1>. QED BY <1>1, TaskIsGood, PTL

\* DEMemDataManager and DECurlTask never share a buffer.  They lose none, if the
\* file is not shorter than a segment, and one at the most if it is.
THEOREM TaskPartitionsBuffers == ASSUME ~Aligned, ~EndsInside PROVE Spec => []BuffersPartitioned
<1>1. TaskInv => BuffersPartitioned
  <2>. SUFFICES ASSUME TaskInv PROVE BuffersPartitioned
    OBVIOUS
  <2>1. /\ Stored(mDownloadedSegments, mFreeSegmentIndex)
        /\ Held(mTaskPriv, mDownloadedSegments, mFreeSegmentIndex)
        /\ Kept(mTaskPriv, mDownloadedSegments, mFreeSegmentIndex)
    BY GoodFacts DEF TaskInv
  <2>2. NoSharedBuffer
    BY <2>1 DEF NoSharedBuffer, Stored, Held
  <2>3. PICK x \in Buffers \cup {NoBuffer} :
          /\ MayLose(mTaskPriv, x)
          /\ KeptBut(mTaskPriv, mDownloadedSegments, mFreeSegmentIndex, x)
    BY <2>1 DEF Kept
  <2>4. Lost \subseteq {x} /\ Lost \subseteq Buffers
    BY <2>3 DEF Lost, KeptBut
  <2>5. CASE x = NoBuffer
    <3>1. Lost = {}
      BY <2>4, <2>5, BuffersAssumption DEF NoBuffer
    <3>2. Cardinality(Lost) = 0
      BY <3>1, FS_EmptySet
    <3>. QED BY <2>2, <3>2 DEF BuffersPartitioned, MayBeLost
  <2>6. CASE x # NoBuffer
    <3>1. Cardinality(Lost) <= 1
      <4>1. IsFiniteSet({x}) /\ Cardinality({x}) = 1
        BY FS_Singleton
      <4>. QED BY <2>4, <4>1, FS_Subset
    <3>2. MayBeLost = 1
      BY <2>3, <2>6, TaskAssumption DEF MayLose, MayBeLost
    <3>. QED BY <2>2, <3>1, <3>2 DEF BuffersPartitioned
  <2>. QED BY <2>5, <2>6
<1>. QED BY <1>1, TaskIsGood, PTL

\* What the data source reads as a block is that block (DEMemDataManager::read).
THEOREM TaskKeepsBlocksIntact == ASSUME ~Aligned, ~EndsInside PROVE Spec => []BlocksIntact
<1>1. TaskInv => BlocksIntact
  BY DEF TaskInv, Good, Intact, BlocksIntact
<1>. QED BY <1>1, TaskIsGood, PTL

\* isEnoughFreespace, asked once when a segment is launched, holds for the
\* segment's whole life.
THEOREM TaskBuffersSuffice == ASSUME ~Aligned, ~EndsInside PROVE Spec => []BuffersSuffice
<1>1. TaskInv => BuffersSuffice
  <2>. SUFFICES ASSUME TaskInv PROVE BuffersSuffice
    OBVIOUS
  <2>1. NeedSpace(mTaskPriv) = Cardinality(Wanted(mTaskPriv))
    BY GoodFacts, NeedIsWanted DEF TaskInv
  <2>. QED BY <2>1 DEF TaskInv, Good, Enough, BuffersSuffice
<1>. QED BY <1>1, TaskIsGood, PTL

\* "acquireBuffer never be here": no segment is without a buffer, in a task that
\* libcurl does not call back (the run task_NeverWithoutBuffer needs it to).
THEOREM TaskHasBuffers == ASSUME ~Aligned, ~EndsInside PROVE Spec => []NeverWithoutBuffer
<1>1. TaskInv => NeverWithoutBuffer
  <2>. SUFFICES ASSUME TaskInv, NEW s \in mTaskPriv PROVE s.buf # NoBuffer
    BY DEF NeverWithoutBuffer
  <2>1. s.buf \in Buffers
    BY GoodFacts DEF TaskInv
  <2>. QED BY <2>1, BuffersAssumption DEF NoBuffer
<1>. QED BY <1>1, TaskIsGood, PTL

\* "never gone be here": every range that is asked for has something in it.
THEOREM TaskAsksForSomething == ASSUME ~Aligned, ~EndsInside PROVE Spec => []NoEmptySegment
<1>1. TaskInv => NoEmptySegment
  <2>. SUFFICES ASSUME TaskInv, NEW s \in mTaskPriv PROVE s.begin < s.end
    BY DEF NoEmptySegment
  <2>1. /\ s.begin \in Nat /\ s.end \in Nat /\ s.pos \in Nat
        /\ s.begin <= s.pos /\ s.pos < s.end
    BY GoodFacts DEF TaskInv
  <2>. QED BY <2>1
<1>. QED BY <1>1, TaskIsGood, PTL

-----------------------------------------------------------------------------
(***************************************************************************)
(* The task keeps the promise of BlockCache.  The order in which blocks    *)
(* were read last is that of their places in the LRU list, which are never *)
(* the same.                                                               *)
(***************************************************************************)

Placed(cache) ==
  /\ \A j \in DOMAIN cache : cache[j] \in Nat
  /\ \A i, j \in DOMAIN cache : cache[i] = cache[j] => i = j

NewerIn(cache) == {p \in (DOMAIN cache) \X (DOMAIN cache) : cache[p[1]] < cache[p[2]]}

CacheInv == TaskInv /\ Placed(mReadCache)

\* The entry a new one replaces has the last place: every other one is newer.
LEMMA ReplacedOldest ==
  ASSUME NEW cache, Placed(cache)
  PROVE  {j \in DOMAIN cache : \A i \in DOMAIN cache : cache[i] <= cache[j]}
           = {j \in DOMAIN cache : \A i \in (DOMAIN cache) \ {j} : <<i, j>> \in NewerIn(cache)}
<1>1. ASSUME NEW j \in DOMAIN cache
      PROVE  (\A i \in DOMAIN cache : cache[i] <= cache[j])
               <=> (\A i \in (DOMAIN cache) \ {j} : <<i, j>> \in NewerIn(cache))
  <2>1. ASSUME NEW i \in DOMAIN cache
        PROVE  /\ <<i, j>> \in NewerIn(cache) <=> cache[i] < cache[j]
               /\ i # j => (cache[i] <= cache[j] <=> cache[i] < cache[j])
               /\ i = j => cache[i] <= cache[j]
    BY DEF NewerIn, Placed
  <2>. QED BY <2>1
<1>. QED BY <1>1

\* After an access the places differ again, the block is in front, and the
\* others are in the order they were in.
LEMMA AccessedPlaces ==
  ASSUME NEW cache, NEW k, Placed(cache)
  PROVE  LET others == (DOMAIN cache) \ (Replaced(cache, k) \cup {k})
         IN  /\ Placed(Accessed(cache, k))
             /\ DOMAIN Accessed(cache, k) = others \cup {k}
             /\ NewerIn(Accessed(cache, k))
                  = (NewerIn(cache) \cap (others \X others)) \cup ({k} \X others)
<1>. DEFINE after  == Accessed(cache, k)
            others == (DOMAIN cache) \ (Replaced(cache, k) \cup {k})
            front  == k \in DOMAIN cache
<1>1. k \notin Replaced(cache, k) /\ Replaced(cache, k) \subseteq DOMAIN cache
  BY DEF Replaced
<1>2. DOMAIN after = others \cup {k}
  BY <1>1 DEF Accessed
<1>3. after[k] = 0
  BY <1>1 DEF Accessed
<1>4. ASSUME NEW j \in others
      PROVE  /\ j \in DOMAIN cache /\ j # k /\ cache[j] \in Nat
             /\ front => cache[k] \in Nat /\ cache[j] # cache[k]
             /\ after[j] = IF front /\ cache[k] < cache[j] THEN cache[j] ELSE cache[j] + 1
             /\ after[j] \in Nat /\ after[j] > 0
  <2>1. j \in DOMAIN cache /\ j # k /\ cache[j] \in Nat
    BY DEF Placed
  <2>2. front => cache[k] \in Nat /\ cache[j] # cache[k]
    BY <2>1 DEF Placed
  <2>3. after[j] = IF front /\ cache[k] < cache[j] THEN cache[j] ELSE cache[j] + 1
    BY <2>1 DEF Accessed
  <2>. QED BY <2>1, <2>2, <2>3
<1>5. ASSUME NEW i \in others, NEW j \in others
      PROVE  /\ after[i] < after[j] <=> cache[i] < cache[j]
             /\ after[i] = after[j] => i = j
  <2>1. cache[i] = cache[j] => i = j
    BY <1>4 DEF Placed
  <2>2. \A x, y, z \in Nat :
          x # z /\ y # z =>
            LET u == IF front /\ z < x THEN x ELSE x + 1
                v == IF front /\ z < y THEN y ELSE y + 1
            IN  (u < v <=> x < y) /\ (u = v => x = y)
    OBVIOUS
  <2>3. CASE front
    BY <1>4, <2>1, <2>2, <2>3
  <2>4. CASE ~front
    BY <1>4, <2>1, <2>4
  <2>. QED BY <2>3, <2>4
<1>. HIDE DEF after, others, front
<1>6. Placed(after)
  BY <1>2, <1>3, <1>4, <1>5 DEF Placed
<1>7. k \notin others
  BY DEF others
<1>8. NewerIn(after) = (NewerIn(cache) \cap (others \X others)) \cup ({k} \X others)
  <2>1. ASSUME NEW i \in others \cup {k}, NEW j \in others \cup {k}
        PROVE  after[i] < after[j]
                 <=> \/ i \in others /\ j \in others /\ cache[i] < cache[j]
                     \/ i = k /\ j \in others
    BY <1>3, <1>4, <1>5, <1>7
  <2>2. others \subseteq DOMAIN cache
    BY DEF others
  <2>. QED BY <1>2, <2>1, <2>2 DEF NewerIn
<1>. QED BY <1>2, <1>6, <1>8 DEF after, others

\* The order of reading, and what the cache of blocks calls the oldest.
LEMMA SameReplaced ==
  ASSUME Placed(mReadCache)
  PROVE  /\ Cache!Dropped = Replaced(mReadCache, mCurrReadPosition)
         /\ Newer = NewerIn(mReadCache)
<1>1. Newer = NewerIn(mReadCache)
  BY DEF Newer, NewerIn
<1>2. Cache!Oldest = {j \in DOMAIN mReadCache :
                       \A i \in DOMAIN mReadCache : mReadCache[i] <= mReadCache[j]}
  BY <1>1, ReplacedOldest DEF Cache!Oldest
<1>3. Cache!Cardinality(DOMAIN mReadCache) = Cardinality(DOMAIN mReadCache)
  BY DEF Cache!Cardinality, Cardinality
<1>. QED BY <1>1, <1>2, <1>3 DEF Cache!Dropped, Replaced

\* Data that comes into the buffer of a segment leaves the blocks that are here
\* as they are.
LEMMA OthersUntouched ==
  ASSUME TaskInv, NEW s \in mTaskPriv, NEW rest,
         NEW j \in DOMAIN mDownloadedSegments
  PROVE  Filled(content, s.buf, s.pos, rest)[mDownloadedSegments[j]]
           = content[mDownloadedSegments[j]]
<1>1. /\ Stored(mDownloadedSegments, mFreeSegmentIndex)
      /\ Held(mTaskPriv, mDownloadedSegments, mFreeSegmentIndex)
      /\ Intact(mTaskPriv, mDownloadedSegments, content)
  BY GoodFacts DEF TaskInv
<1>2. /\ mDownloadedSegments[j] \in Buffers /\ mDownloadedSegments[j] # s.buf
      /\ content \in [Buffers -> Blocks \cup {Mixture}]
  BY <1>1 DEF Stored, Held, Intact
<1>. QED BY <1>2 DEF Filled

\* Data that completes a block: it comes, and there is room for it.
LEMMA BlockArrives ==
  ASSUME TaskInv, NEW s \in mTaskPriv, WriteOut(s),
         UNCHANGED <<mReadCache, mCurrReadPosition, IsOpen>>
  PROVE  \E k \in 0 .. NBlocks - 1 : Cache!Arrive(k)
<1>. DEFINE k == s.pos
<1>1. /\ Stored(mDownloadedSegments, mFreeSegmentIndex)
      /\ Held(mTaskPriv, mDownloadedSegments, mFreeSegmentIndex)
      /\ Intact(mTaskPriv, mDownloadedSegments, content)
      /\ Fresh(mTaskPriv, mDownloadedSegments)
      /\ s.pos \in Nat /\ s.end \in Nat /\ s.pos < s.end /\ s.pos < NBlocks
      /\ s.buf \in Buffers /\ s.partial \in BOOLEAN
  BY GoodFacts DEF TaskInv
<1>2. NBlocks \in Nat
  BY TaskAssumption
<1>3. k \in 0 .. NBlocks - 1
  BY <1>1, <1>2
<1>4. k \notin DOMAIN mDownloadedSegments
  <2>1. s.pos \in s.pos .. s.end - 1
    BY <1>1
  <2>. QED BY <1>1, <2>1 DEF Fresh
<1>5. Cardinality(DOMAIN mDownloadedSegments) < Cardinality(Buffers)
  <2>. DEFINE rest == Buffers \ {s.buf}
  <2>1. IsFiniteSet(rest) /\ Cardinality(rest) = Cardinality(Buffers) - 1 /\ Cardinality(Buffers) \in Nat
    BY <1>1, BuffersAssumption, FS_RemoveElement, FS_CardinalityType
  <2>. DEFINE f == [j \in DOMAIN mDownloadedSegments |-> mDownloadedSegments[j]]
  <2>2. f \in [DOMAIN mDownloadedSegments -> rest]
    BY <1>1 DEF Stored, Held
  <2>3. f \in Injection(DOMAIN mDownloadedSegments, rest)
    <3>1. \A i, j \in DOMAIN mDownloadedSegments : f[i] = f[j] => i = j
      BY <1>1 DEF Stored
    <3>. QED BY <2>2, <3>1 DEF Injection, IsInjective
  <2>4. /\ Cardinality(DOMAIN mDownloadedSegments) <= Cardinality(rest)
        /\ IsFiniteSet(DOMAIN mDownloadedSegments)
    BY <2>1, <2>3, FS_Injection
  <2>5. Cardinality(DOMAIN mDownloadedSegments) \in Nat
    BY <2>4, FS_CardinalityType
  <2>. QED BY <2>1, <2>4, <2>5
<1>6. Data' = [j \in DOMAIN Data \cup {k} |-> IF j = k THEN k ELSE Data[j]]
  <2>1. /\ mDownloadedSegments' = Written(mDownloadedSegments, k, s.buf)
        /\ content' = Filled(content, s.buf, k, s.partial)
    BY DEF WriteOut
  <2>2. DOMAIN mDownloadedSegments' = DOMAIN mDownloadedSegments \cup {k}
    BY <2>1 DEF Written
  <2>3. content'[mDownloadedSegments'[k]] = k
    <3>1. mDownloadedSegments'[k] = s.buf
      BY <2>1 DEF Written
    <3>2. s.partial => content[s.buf] = k
      BY <1>1 DEF Intact
    <3>3. content'[s.buf] = IF s.partial /\ content[s.buf] # k THEN Mixture ELSE k
      BY <1>1, <2>1 DEF Intact, Filled
    <3>. QED BY <3>1, <3>2, <3>3
  <2>4. ASSUME NEW j \in DOMAIN mDownloadedSegments
        PROVE  j # k /\ content'[mDownloadedSegments'[j]] = content[mDownloadedSegments[j]]
    <3>1. mDownloadedSegments'[j] = mDownloadedSegments[j] /\ j # k
      BY <1>4, <2>1 DEF Written
    <3>. QED BY <2>1, <3>1, OthersUntouched
  <2>. QED BY <2>2, <2>3, <2>4 DEF Data
<1>7. DOMAIN Data = DOMAIN mDownloadedSegments
  BY DEF Data
<1>8. Cache!Cardinality(DOMAIN Data) < Cardinality(Buffers)
  <2>1. Cache!Cardinality(DOMAIN Data) = Cardinality(DOMAIN Data)
    BY DEF Cache!Cardinality, Cardinality
  <2>. QED BY <1>5, <1>7, <2>1
<1>9. Newer' = Newer /\ (DOMAIN mReadCache)' = DOMAIN mReadCache
  BY DEF Newer
<1>10. Cache!Arrive(k)
  BY <1>4, <1>6, <1>7, <1>8, <1>9 DEF Cache!Arrive
<1>. QED BY <1>3, <1>10

\* The read command: the block becomes the newest, the oldest one is dropped.
LEMMA ReadIsRead ==
  ASSUME Read, Placed(mReadCache)
  PROVE  Cache!Read /\ Placed(mReadCache')
<1>. DEFINE k == mCurrReadPosition
            others == (DOMAIN mReadCache) \ (Replaced(mReadCache, k) \cup {k})
<1>1. /\ IsOpen /\ IsOpen' = IsOpen
      /\ k \in DOMAIN mDownloadedSegments
      /\ mReadCache' = Accessed(mReadCache, k)
      /\ mDownloadedSegments' = DownloadedAfterRead(mDownloadedSegments, mReadCache, k)
      /\ mCurrReadPosition' \in {k, k + 1}
      /\ content' = content
  BY DEF Read, IsOpen, isPositionCached
<1>2. /\ Placed(mReadCache')
      /\ DOMAIN mReadCache' = others \cup {k}
      /\ NewerIn(mReadCache') = (NewerIn(mReadCache) \cap (others \X others)) \cup ({k} \X others)
  BY <1>1, AccessedPlaces, Zenon
<1>3. Newer' = NewerIn(mReadCache') /\ Newer = NewerIn(mReadCache)
  BY DEF Newer, NewerIn
<1>4. Cache!Dropped = Replaced(mReadCache, k)
  BY SameReplaced
<1>5. Cache!Others = others
  BY <1>4 DEF Cache!Others
<1>6. Data' = Cache!Only(DOMAIN Data \ Cache!Dropped)
  <2>1. DOMAIN mDownloadedSegments' = DOMAIN mDownloadedSegments \ Replaced(mReadCache, k)
    BY <1>1 DEF DownloadedAfterRead, Restricted
  <2>2. \A j \in DOMAIN mDownloadedSegments' : mDownloadedSegments'[j] = mDownloadedSegments[j]
    BY <1>1 DEF DownloadedAfterRead, Restricted
  <2>. QED BY <1>1, <1>4, <2>1, <2>2 DEF Data, Cache!Only
<1>7. k \in DOMAIN Data
  BY <1>1 DEF Data
<1>. QED BY <1>1, <1>2, <1>3, <1>5, <1>6, <1>7 DEF Cache!Read

\* BeastSeek: a place that is not here takes with it what has not been read.
LEMMA SeekIsSeek ==
  ASSUME NEW k \in 0 .. NBlocks, Seek(k), TaskInv
  PROVE  Cache!Seek(k)
<1>. DEFINE block == IF k = NBlocks /\ ~Aligned THEN NBlocks - 1 ELSE k
<1>1. /\ IsOpen /\ IsOpen' = IsOpen /\ mCurrReadPosition' = k
  BY DEF Seek, IsOpen
<1>2. UNCHANGED <<mReadCache, content>>
  BY DEF Seek, bufferVars
<1>3. Newer' = Newer /\ (DOMAIN mReadCache)' = DOMAIN mReadCache
  BY <1>2 DEF Newer
<1>4. DOMAIN Data = DOMAIN mDownloadedSegments
  BY DEF Data
<1>5. CASE isPositionCached(mDownloadedSegments, block)
  <2>1. UNCHANGED <<mDownloadedSegments, content>>
    BY <1>5 DEF Seek, bufferVars
  <2>2. Data' = Data
    BY <2>1 DEF Data
  <2>. QED BY <1>1, <1>3, <2>2 DEF Cache!Seek
<1>6. CASE ~isPositionCached(mDownloadedSegments, block)
  <2>1. mDownloadedSegments' = DownloadedAfterPurge(mDownloadedSegments, mReadCache)
    BY <1>6 DEF Seek
  <2>2. DOMAIN mDownloadedSegments' = DOMAIN mDownloadedSegments \cap DOMAIN mReadCache
    BY <2>1 DEF DownloadedAfterPurge, Restricted
  <2>3. \A j \in DOMAIN mDownloadedSegments' : mDownloadedSegments'[j] = mDownloadedSegments[j]
    BY <2>1 DEF DownloadedAfterPurge, Restricted
  <2>4. Data' = Cache!Only(DOMAIN mReadCache)
    BY <1>2, <1>4, <2>2, <2>3 DEF Data, Cache!Only
  <2>5. k \notin DOMAIN Data
    <3>1. NBlocks \in Nat /\ DOMAIN mDownloadedSegments \subseteq Blocks
      BY GoodFacts, TaskAssumption DEF TaskInv, Stored
    <3>2. CASE k = NBlocks
      BY <1>4, <3>1, <3>2 DEF Blocks
    <3>3. CASE k # NBlocks
      BY <1>4, <1>6, <3>3 DEF isPositionCached
    <3>. QED BY <3>2, <3>3
  <2>. QED BY <1>1, <1>3, <2>4, <2>5 DEF Cache!Seek
<1>. QED BY <1>5, <1>6

\* A step that neither reads nor changes what is here.
LEMMA CacheStutters ==
  ASSUME UNCHANGED <<mReadCache, mDownloadedSegments, mCurrReadPosition, IsOpen>>,
         \A j \in DOMAIN mDownloadedSegments :
           content'[mDownloadedSegments[j]] = content[mDownloadedSegments[j]]
  PROVE  UNCHANGED Cache!cacheVars /\ (Placed(mReadCache) => Placed(mReadCache'))
<1>1. Data' = Data
  BY DEF Data
<1>2. Newer' = Newer /\ (DOMAIN mReadCache)' = DOMAIN mReadCache
  BY DEF Newer
<1>. QED BY <1>1, <1>2 DEF Cache!cacheVars

\* A step of the task is one of the cache, or is none of its reader's business.
LEMMA CacheStep ==
  ASSUME ~Aligned, ~EndsInside, CacheInv, [Next]_vars
  PROVE  [Cache!Next]_(Cache!cacheVars) /\ Placed(mReadCache')
<1>a. TaskInv /\ Placed(mReadCache)
  BY DEF CacheInv
<1>1. ASSUME NEW s \in mTaskPriv, Receive(s)
      PROVE  UNCHANGED Cache!cacheVars /\ Placed(mReadCache')
  <2>1. UNCHANGED <<mReadCache, mDownloadedSegments, mCurrReadPosition, IsOpen>>
    BY <1>1 DEF Receive, clientVars, IsOpen
  <2>2. content' = Filled(content, s.buf, s.pos, FALSE)
    BY <1>1 DEF Receive
  <2>. QED BY <1>a, <2>1, <2>2, OthersUntouched, CacheStutters
<1>2. ASSUME NEW s \in mTaskPriv, ReceiveBlock(s) \/ SegmentDone(s)
      PROVE  Cache!Next /\ Placed(mReadCache')
  <2>0. ~Ended(s)
    <3>1. s.pos \in Nat /\ s.end \in Nat /\ s.pos < s.end /\ s.pos < NBlocks
      BY <1>a, GoodFacts DEF TaskInv
    <3>. QED BY <3>1, TaskAssumption DEF Ended, Last
  <2>1. WriteOut(s) /\ UNCHANGED <<mReadCache, mCurrReadPosition>>
    BY <1>2, <2>0 DEF ReceiveBlock, SegmentDone, clientVars
  <2>2. IsOpen' = IsOpen
    BY <1>2 DEF ReceiveBlock, SegmentDone, clientVars, IsOpen
  <2>3. \E k \in 0 .. NBlocks - 1 : Cache!Arrive(k)
    BY <1>a, <2>1, <2>2, BlockArrives
  <2>. QED BY <1>a, <2>1, <2>3 DEF Cache!Next
<1>3. ASSUME NEW s \in mTaskPriv, NEW silent \in BOOLEAN, SegmentFails(s, silent)
      PROVE  UNCHANGED Cache!cacheVars /\ Placed(mReadCache')
  <2>1. UNCHANGED <<mReadCache, mDownloadedSegments, content, mCurrReadPosition>>
    BY <1>3 DEF SegmentFails
  <2>2. IsOpen' = IsOpen
    BY <1>3 DEF SegmentFails, IsOpen
  <2>. QED BY <1>a, <2>1, <2>2, CacheStutters
<1>4. ASSUME Timer PROVE UNCHANGED Cache!cacheVars /\ Placed(mReadCache')
  <2>1. UNCHANGED <<mReadCache, mDownloadedSegments, content, mCurrReadPosition, IsOpen>>
    BY <1>4 DEF Timer, clientVars, IsOpen
  <2>. QED BY <1>a, <2>1, CacheStutters
<1>5. ASSUME Open \/ OpenTimesOut PROVE [Cache!Next]_(Cache!cacheVars) /\ Placed(mReadCache')
  <2>1. UNCHANGED <<mReadCache, mDownloadedSegments, content, mCurrReadPosition>>
    BY <1>5 DEF Open, OpenTimesOut, bufferVars
  <2>2. CASE client' = "open"
    <3>1. ~IsOpen /\ IsOpen'
      BY <1>5, <2>2 DEF Open, OpenTimesOut, IsOpen
    <3>2. Data' = Data /\ Newer' = Newer /\ (DOMAIN mReadCache)' = DOMAIN mReadCache
      BY <2>1 DEF Data, Newer
    <3>. QED BY <1>a, <2>1, <3>1, <3>2 DEF Cache!Open, Cache!Next
  <2>3. CASE client' # "open"
    <3>1. IsOpen' = IsOpen
      BY <1>5, <2>3 DEF Open, OpenTimesOut, IsOpen
    <3>. QED BY <1>a, <2>1, <3>1, CacheStutters
  <2>. QED BY <2>2, <2>3
<1>6. ASSUME Read PROVE Cache!Next /\ Placed(mReadCache')
  BY <1>a, <1>6, ReadIsRead DEF Cache!Next
<1>7. ASSUME NEW k \in 0 .. NBlocks, Seek(k) PROVE Cache!Next /\ Placed(mReadCache')
  <2>1. UNCHANGED mReadCache
    BY <1>7 DEF Seek, bufferVars
  <2>. QED BY <1>a, <1>7, <2>1, SeekIsSeek DEF Cache!Next
<1>8. ASSUME BeastSeek PROVE UNCHANGED Cache!cacheVars /\ Placed(mReadCache')
  <2>1. UNCHANGED <<mReadCache, mDownloadedSegments, content, mCurrReadPosition, IsOpen>>
    BY <1>8 DEF BeastSeek, bufferVars, IsOpen
  <2>. QED BY <1>a, <2>1, CacheStutters
<1>9. CASE UNCHANGED vars
  <2>1. UNCHANGED <<mReadCache, mDownloadedSegments, content, mCurrReadPosition, IsOpen>>
    BY <1>9 DEF vars, bufferVars, clientVars, IsOpen
  <2>. QED BY <1>a, <2>1, CacheStutters
<1>. QED BY <1>1, <1>2, <1>3, <1>4, <1>5, <1>6, <1>7, <1>8, <1>9 DEF Next

\* The task implements the cache of blocks (DEBaseTask, DEMemDataManager):
\* through segments, failures, restarts and buffers that go round, its reader
\* sees blocks come whole and stay, with their data, until they fall out of
\* those read last or it seeks to a place that is not here.
THEOREM TaskServesCache == ASSUME ~Aligned, ~EndsInside PROVE Spec => ImplementsCache
<1>1. Init => CacheInv
  <2>1. Init => Placed(mReadCache)
    BY DEF Init, Placed
  <2>. QED BY <2>1, GoodInit DEF CacheInv
<1>2. CacheInv /\ [Next]_vars => CacheInv' /\ [Cache!Next]_(Cache!cacheVars)
  <2>. SUFFICES ASSUME CacheInv, [Next]_vars
                PROVE  CacheInv' /\ [Cache!Next]_(Cache!cacheVars)
    OBVIOUS
  <2>1. TaskInv'
    BY GoodStep DEF CacheInv
  <2>. QED BY <2>1, CacheStep DEF CacheInv
<1>3. Init => Cache!Init
  <2>. SUFFICES ASSUME Init PROVE Cache!Init
    OBVIOUS
  <2>1. DOMAIN mReadCache = {} /\ DOMAIN mDownloadedSegments = {}
    BY DEF Init
  <2>2. Data = <<>> /\ Newer = {}
    BY <2>1 DEF Data, Newer
  <2>3. IsOpen = FALSE /\ mCurrReadPosition = 0
    BY DEF Init, IsOpen
  <2>. QED BY <2>1, <2>2, <2>3 DEF Cache!Init
<1>. QED BY <1>1, <1>2, <1>3, PTL DEF Spec, ImplementsCache, Cache!Spec
=============================================================================
