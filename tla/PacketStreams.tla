----------------------------- MODULE PacketStreams -----------------------------
(***************************************************************************)
(* What a demultiplexer promises the decoders, without its queues, its     *)
(* event and the file it reads: every track is a stream of packets that is *)
(* read in order and without gaps, until the reader is told of a           *)
(* discontinuity; and a seek makes all the tracks go on from one place.    *)
(***************************************************************************)
EXTENDS Integers, Sequences

CONSTANTS
  Tracks,
  Media,      \* the packets in file order: the track each belongs to
  Targets,    \* the packets that are sought
  NoPlace     \* stands for "no seek is being carried out"

VARIABLES
  started,    \* the tracks that are read
  at,         \* where in the file the reader of each track goes on
  cut,        \* whether it is told of a discontinuity first
  goal,       \* where the seek being carried out leads to, or NoPlace
  left,       \* the tracks that still have to restart there
  last,       \* the packet each reader got last, 0 being a discontinuity
  open

streamVars == <<started, at, cut, goal, left, last, open>>

Init ==
  /\ started = {} /\ left = {} /\ goal = NoPlace /\ open = TRUE
  /\ at = [t \in Tracks |-> 1]
  /\ cut = [t \in Tracks |-> FALSE]
  /\ last = [t \in Tracks |-> 0]

\* A track that is started later begins where the others are.
Start(t) ==
  /\ open /\ t \notin started
  /\ started' = started \cup {t}
  /\ \E i \in 1 .. Len(Media) + 1 :
       /\ at' = [at EXCEPT ![t] = i]
       /\ \A u \in started \ left : at[u] = i
       /\ goal \in {NoPlace, i}
  /\ UNCHANGED <<cut, goal, left, last, open>>

Seek(target) ==
  /\ goal = NoPlace
  /\ goal' = target /\ left' = started
  /\ UNCHANGED <<started, at, cut, last, open>>

Restart(t) ==
  /\ t \in left
  /\ left' = left \ {t}
  /\ at' = [at EXCEPT ![t] = goal]
  /\ cut' = [cut EXCEPT ![t] = TRUE]
  /\ UNCHANGED <<started, goal, last, open>>

SeekDone ==
  /\ goal # NoPlace /\ left = {}
  /\ goal' = NoPlace
  /\ UNCHANGED <<started, at, cut, left, last, open>>

\* The reader gets the next packet of its track.
Get(t) ==
  /\ open /\ t \in started /\ ~cut[t]
  /\ \E p \in at[t] .. Len(Media) :
       /\ Media[p] = t /\ \A i \in at[t] .. p - 1 : Media[i] # t
       /\ last' = [last EXCEPT ![t] = p]
       /\ at' = [at EXCEPT ![t] = p + 1]
  /\ UNCHANGED <<started, cut, goal, left, open>>

Discontinuity(t) ==
  /\ open /\ t \in started /\ cut[t]
  /\ cut' = [cut EXCEPT ![t] = FALSE]
  /\ last' = [last EXCEPT ![t] = 0]
  /\ UNCHANGED <<started, at, goal, left, open>>

\* What has not been read by then is thrown away.
Close ==
  /\ open /\ goal = NoPlace
  /\ open' = FALSE
  /\ at' = [t \in Tracks |-> 1]
  /\ cut' = [t \in Tracks |-> FALSE]
  /\ UNCHANGED <<started, goal, left, last>>

Next ==
  \/ \E t \in Tracks : Start(t) \/ Restart(t) \/ Get(t) \/ Discontinuity(t)
  \/ \E target \in Targets : Seek(target)
  \/ SeekDone \/ Close

Spec == Init /\ [][Next]_streamVars

===============================================================================
