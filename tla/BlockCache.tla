------------------------------ MODULE BlockCache ------------------------------
(***************************************************************************)
(* What a download task promises the source that reads it, without its     *)
(* segments, buffers and transfers: the blocks of the file that are here,  *)
(* in a limited space, with their data.  A block that has come stays, with *)
(* its data, until it falls out of the blocks read last, or the source     *)
(* goes to a place that is not here before it has read it.                 *)
(***************************************************************************)
EXTENDS Integers, FiniteSets

CONSTANTS
  NBlocks,    \* blocks of the file
  CacheSize,  \* how many of those read last stay
  Capacity    \* how many blocks there is room for

VARIABLES
  open,       \* whether the source can read
  at,         \* the block it is about to read, or the end of the file
  here,       \* block |-> its data, of the blocks that have come
  recent,     \* the blocks it has read last
  newer       \* <<i, j>>: i has been read after j was last read

cacheVars == <<open, at, here, recent, newer>>

Only(S) == [k \in DOMAIN here \cap S |-> here[k]]

Init == open = FALSE /\ at = 0 /\ here = <<>> /\ recent = {} /\ newer = {}

Open == ~open /\ open' = TRUE /\ UNCHANGED <<at, here, recent, newer>>

\* A block comes whole, and there is room for it.
Arrive(k) ==
  /\ k \notin DOMAIN here /\ Cardinality(DOMAIN here) < Capacity
  /\ here' = [j \in DOMAIN here \cup {k} |-> IF j = k THEN k ELSE here[j]]
  /\ UNCHANGED <<open, at, recent, newer>>

\* The source reads its block, or a part of it: that one is the newest, and of
\* CacheSize others the oldest is dropped.
Oldest == {j \in recent : \A i \in recent \ {j} : <<i, j>> \in newer}
Dropped ==
  IF at \in recent \/ Cardinality(recent) < CacheSize THEN {} ELSE Oldest
Others == recent \ (Dropped \cup {at})

Read ==
  /\ open /\ at \in DOMAIN here
  /\ recent' = Others \cup {at}
  /\ newer' = (newer \cap (Others \X Others)) \cup ({at} \X Others)
  /\ here' = Only(DOMAIN here \ Dropped)
  /\ at' \in {at, at + 1}
  /\ UNCHANGED open

\* It goes elsewhere: what was read last stays, and the rest if the place is here.
Seek(k) ==
  /\ open
  /\ at' = k
  /\ here' \in {here, Only(recent)}
  /\ k \in DOMAIN here => here' = here
  /\ UNCHANGED <<open, recent, newer>>

Next ==
  \/ Open \/ Read
  \/ \E k \in 0 .. NBlocks - 1 : Arrive(k)
  \/ \E k \in 0 .. NBlocks : Seek(k)

Spec == Init /\ [][Next]_cacheVars

===============================================================================
